---- MODULE Spec2Model ----
(***************************************************************************)
(* Model of the HTPI admin portal Socket.IO server (src/app.py): the       *)
(* connected_clients registry, Socket.IO room membership, the event        *)
(* handlers, the bus (NATS) subscription callbacks and the health-check    *)
(* finalisation timer.                                                     *)
(*                                                                         *)
(* Python values are modelled as follows.  A dict is a function whose      *)
(* DOMAIN is its key set, so a missing key is a missing domain element.    *)
(* Python None is the string None below; an f-string renders it as the     *)
(* text "None" (operator Str).  A payload key that the sender left out is  *)
(* the value Missing.  Every handler is one atomic step.                   *)
(***************************************************************************)
EXTENDS Integers, Sequences, FiniteSets, TLC

\* ---------------------------------------------------------------- bounds
MaxConn == 2          \* connections ever opened under Spec
FanoutConn == 4       \* connections ever opened under SpecFanout
MaxChecks == 1        \* services:status:check requests that reach the bus branch
MaxHeld == 1          \* effects of requests (room subscriptions, tenant
                      \* selections, health-check dicts) held at a time
MaxThreads == 2       \* request threads that call the shared NATSService
MaxCalls == 3         \* calls of request / publish made on the NATSService
MaxAdmins == 1        \* connections logged in at a time under Spec

\* ------------------------------------------------------- values and dicts
None == "<None>"
Missing == "<missing>"

Str(x) == IF x = None THEN "None" ELSE x

Sid(i) == "sid" \o ToString(i)
\* ReqId that returns the same id every time
ReqIdFixed(i) == "uuid1"
\* the i-th value of str(uuid.uuid4())
ReqId(i) == "uuid" \o ToString(i)

\* d.get(k, default)
Get(d, k, default) == IF k \in DOMAIN d THEN d[k] ELSE default
\* d[k] = v
Put(d, k, v) == [x \in (DOMAIN d) \cup {k} |-> IF x = k THEN v ELSE d[x]]
\* del d[k]
Del(d, k) == [x \in (DOMAIN d) \ {k} |-> d[x]]
EmptyDict == [x \in {} |-> None]

\* payload.get(k): an omitted key reads as None
PGet(v) == IF v = Missing THEN None ELSE v

VARIABLES
    STANDALONE_MODE,     \* app.py:42
    nc,                  \* app.py:43  "None" | "connected" | "reconnecting"
    connected_clients,   \* app.py:46  dict sid -> client dict
    rooms,               \* Socket.IO room membership: set of <<sid, room>>
    timers,              \* started threading.Timer objects: set of <<sid, requestId>>,
                         \* or <<sid, requestId, position>> once running (SpecRace)
    nextSid,             \* number of connections opened so far
    nextReq,             \* number of uuid4 request ids generated so far
    subscribed,          \* history: <<sid, <<kind, tenant>>>> for every subscribe
                         \* request granted to a connection that is still open
    last,                \* what the last step did: operation, caller, emits, publishes
    subscriptions,       \* app.py:1649-1663: progress of init_nats and the
                         \* subscriptions made on nc
    nats_service,        \* the shared NATSService instance (services/nats_service.py)
    handlers,            \* handler calls that run statement by statement on their
                         \* own threads (async_mode='threading', app.py:38)
    session,             \* the Flask session of one browser (its signed cookie)
    db                   \* the users table (models.py:11-20): dict email -> User

vars == <<STANDALONE_MODE, nc, connected_clients, rooms, timers, nextSid, nextReq,
          subscribed, last, subscriptions, nats_service, handlers, session, db>>

\* nc and nc.is_connected
NatsConnected == nc = "connected"

\* ------------------------------------------------------------- Socket.IO
\* Every connection is a member of the room named by its own sid.
Members(rr, room) == {m \in {p[1] : p \in rr} : <<m, room>> \in rr}
Participants(rr) == {p[1] : p \in rr}

\* socketio.emit(ev, ..., room=room): room None addresses every participant
\* body abstracts the payload: "ok" for a success or data payload, otherwise
\* the error text.
SocketioEmit(rr, ev, body, room) ==
    [ev |-> ev, body |-> body, room |-> room,
     to |-> IF room = None THEN Participants(rr) ELSE Members(rr, room)]

\* emit(ev, ...) inside a handler: addressed to request.sid
Emit(rr, ev, body, sid) == SocketioEmit(rr, ev, body, sid)

\* join_room(room) inside a handler of connection sid
JoinRoom(rr, sid, room) == rr \cup {<<sid, room>>}

\* ------------------------------------------------------- publish_to_nats
\* app.py:91-116.  The function never sends anything: it returns None when
\* the bus is down, when the subject key is not in NATS_SUBJECTS, and also
\* after logging the message ("Sync mode limitation").
NATS_SUBJECTS == {"patient.create", "patient.list", "patient.get", "patient.update",
                  "patient.delete", "insurance.create", "insurance.list",
                  "insurance.eligibility.check", "claims.create", "claims.list",
                  "claims.upload", "claims.status.check", "encounters.create",
                  "encounters.list", "encounters.update.status", "tenant.create",
                  "tenant.list", "tenant.get", "tenant.switch", "auth.login",
                  "auth.verify"}

PublishOutcome(subject_key) ==
    IF ~NatsConnected THEN "not_connected"
    ELSE IF subject_key \notin NATS_SUBJECTS THEN "unknown_subject"
    ELSE "logged_only"

publish_to_nats(subject_key) == None

PubRec(subject_key) == [key |-> subject_key, outcome |-> PublishOutcome(subject_key)]

\* ------------------------------------------------------------ admin check
\* IsAdmin without the tests of 'authenticated' and 'role'
IsAdminEntryOnly(sid) == sid \in DOMAIN connected_clients

\* not client or not client.get('authenticated') or client.get('role') != 'admin'
IsAdmin(sid) ==
    /\ sid \in DOMAIN connected_clients
    /\ Get(connected_clients[sid], "authenticated", FALSE) = TRUE
    /\ Get(connected_clients[sid], "role", None) = "admin"

Opened == {Sid(i) : i \in 1..nextSid}

\* arg is the part of the payload (or of the message) the step was called with
Step(op, sid, arg, auth, emits, pubs) ==
    last' = [op |-> op, sid |-> sid, arg |-> arg, auth |-> auth,
             emits |-> emits, pubs |-> pubs]

\* Every bus callback, and init_nats, runs inside try / except Exception:
\* an exception (json that does not parse, a missing key, a failing bus
\* call) ends it where it occurs and is logged.  raised records that this
\* happened.
Raised(b) == [raised |-> b]

AccessDenied(op, sid) ==
    /\ Step(op, sid, None, FALSE, <<Emit(rooms, "error", "Admin access required", sid)>>, <<>>)
    /\ UNCHANGED <<db, session, handlers, nats_service, subscriptions, STANDALONE_MODE, nc, connected_clients, rooms, timers, nextSid, nextReq, subscribed>>

\* ---------------------------------------------------------------- init_nats
\* the topic patterns of app.py:1653-1663 in the order they are subscribed,
\* each as its dot-separated tokens, with the callback it is given
Patterns ==
    <<<<"admin", "patients", "response", "*">>,
      <<"admin", "insurance", "response", "*">>,
      <<"admin", "claims", "response", "*">>,
      <<"admin", "tenants", "updates">>,
      <<"admin", "health", "response", "*">>,
      <<"admin", "broadcast", "patients", "*">>,
      <<"admin", "broadcast", "claims", "*">>>>
Callbacks ==
    <<"handle_patient_response", "handle_insurance_response", "handle_claims_response",
      "handle_tenant_update", "handle_health_response", "handle_patient_response",
      "handle_claims_response">>

\* phase: "start" before init_nats ran, "subscribing" after nats.connect
\* returned, "done" after init_nats returned; subs: the indices of the
\* patterns subscribed on nc so far, one per subscribe call
Subscribed(ps) == [phase |-> "done", subs |-> [i \in DOMAIN ps |-> i]]
NotSubscribed == [phase |-> "done", subs |-> <<>>]

\* NATS subject matching: '*' stands for exactly one token
Matches(pattern, subject) ==
    /\ Len(pattern) = Len(subject)
    /\ \A i \in DOMAIN pattern : pattern[i] = "*" \/ pattern[i] = subject[i]

\* app.py:1649-1650 and the except branch 1666-1668
init_nats_connect ==
    \E ok \in BOOLEAN :
        /\ ~STANDALONE_MODE
        /\ subscriptions.phase = "start"
        /\ nc' = IF ok THEN "connected" ELSE nc
        /\ subscriptions' = [subscriptions EXCEPT !.phase = IF ok THEN "subscribing" ELSE "done"]
        /\ Step("init_nats:connect", None, Raised(~ok), FALSE, <<>>, <<>>)
        /\ UNCHANGED <<db, session, handlers, nats_service, STANDALONE_MODE, connected_clients, rooms, timers,
                       nextSid, nextReq, subscribed>>

\* app.py:1653-1663: the next nc.subscribe; when it raises, the except
\* branch 1666-1668 logs and init_nats returns, nc stays as it is
init_nats_subscribe ==
    \E ok \in BOOLEAN :
        LET i == Len(subscriptions.subs) + 1 IN
        /\ subscriptions.phase = "subscribing"
        /\ subscriptions' =
              IF ok THEN [phase |-> IF i = Len(Patterns) THEN "done" ELSE "subscribing",
                          subs |-> Append(subscriptions.subs, i)]
              ELSE [subscriptions EXCEPT !.phase = "done"]
        /\ Step("init_nats:subscribe", None, Raised(~ok), FALSE, <<>>, <<>>)
        /\ UNCHANGED <<db, session, handlers, nats_service, STANDALONE_MODE, nc, connected_clients, rooms, timers,
                       nextSid, nextReq, subscribed>>

\* one subject per pattern, and one that no pattern covers
Subjects ==
    {<<"admin", "patients", "response", "r1">>, <<"admin", "insurance", "response", "r1">>,
     <<"admin", "claims", "response", "r1">>, <<"admin", "tenants", "updates">>,
     <<"admin", "health", "response", "htpi-nats">>,
     <<"admin", "broadcast", "patients", "tenant-001">>,
     <<"admin", "broadcast", "claims", "tenant-001">>, <<"admin", "tenants", "other">>}

\* the callbacks the nats client runs for a message: one per subscription
\* whose pattern matches the subject
Dispatched(subject) ==
    LET hit == SelectSeq(subscriptions.subs, LAMBDA i : Matches(Patterns[i], subject))
    IN [k \in DOMAIN hit |-> Callbacks[hit[k]]]

\* a message arrives on the bus after init_nats returned
bus_message ==
    \E subject \in Subjects :
        /\ subscriptions.phase = "done"
        /\ NatsConnected
        /\ Step("bus:message", None, [subject |-> subject, ran |-> Dispatched(subject)],
                FALSE, <<>>, <<>>)
        /\ UNCHANGED <<db, session, handlers, nats_service, subscriptions, STANDALONE_MODE, nc, connected_clients,
                       rooms, timers, nextSid, nextReq, subscribed>>

\* ------------------------------------------------------------ NATSService
\* services/nats_service.py.  Request threads share one instance and its
\* one event loop.
Threads == 1..MaxThreads
MaxLoops == 2

appVars == <<STANDALONE_MODE, nc, connected_clients, rooms, timers, nextSid, nextReq,
             subscribed, subscriptions, handlers, session, db>>

\* __init__ (nats_service.py:16-23).  link is the state of self.nc: "none"
\* while self.nc is None, then the state of the nats client, which
\* reconnects on its own (reconnect_time_wait, max_reconnect_attempts) and
\* is closed once it gives up or close() is called.
\* running: the thread inside loop.run_until_complete, 0 when the loop is
\* idle.  queued: calls whose message waits in the client's buffer; sent:
\* calls whose message went out on the bus.
\* reconnects: the failed attempts of the client since it lost the server;
\* waits: the seconds it slept before each further attempt.
\* loop: the event loop in self.loop, counted from the first one made (0:
\* None); opened: the connections nats.connect has opened so far.
NewService ==
    [_connected |-> FALSE, link |-> "none", running |-> 0,
     call |-> [t \in Threads |-> "idle"], queued |-> {}, sent |-> {}, calls |-> 0,
     reconnects |-> 0, waits |-> <<>>, loop |-> 0, opened |-> 0]

\* the options _connect hands to nats.connect (nats_service.py:58-59)
reconnect_time_wait == 2
max_reconnect_attempts == 10

\* is_connected (nats_service.py:69-71)
is_connected(svc) == svc._connected /\ svc.link # "none" /\ svc.link # "closed"

\* what a call returned or raised
Outcome(th, raised, result) == [thread |-> th, raised |-> raised, result |-> result]
SvcStep(op, th, raised, result) ==
    Step(op, None, Outcome(th, raised, result), FALSE, <<>>, <<>>)

\* the reply the responder sends to the inbox of the request of thread th
Reply(th) == "reply-" \o ToString(th)

\* connect (nats_service.py:32-50).  With the flag set it returns at once
\* (34-35).  Otherwise it makes a new event loop (39-40) and runs _connect
\* on it; ok: whether nats.connect reaches the server.  A failure leaves
\* self.nc as it was.
connect ==
    IF nats_service._connected
    THEN /\ nats_service' = nats_service
         /\ SvcStep("NATSService.connect", 0, FALSE, "already connected")
         /\ UNCHANGED appVars
    ELSE \E ok \in BOOLEAN :
        /\ nats_service.running = 0
        /\ nats_service.loop < MaxLoops
        /\ nats_service' =
              IF ok THEN [nats_service EXCEPT !._connected = TRUE, !.link = "connected",
                                              !.loop = @ + 1, !.opened = @ + 1]
              ELSE [nats_service EXCEPT !._connected = FALSE, !.loop = @ + 1]
        /\ SvcStep("NATSService.connect", 0, ~ok, IF ok THEN "connected" ELSE "connect failed")
        /\ UNCHANGED appVars

\* disconnect (nats_service.py:62-67): 'if self.nc and self._connected',
\* then nc.close() on the loop, which raises RuntimeError while another
\* thread runs the loop, then the flag is cleared
disconnect ==
    /\ IF ~(nats_service.link # "none" /\ nats_service._connected)
       THEN /\ nats_service' = nats_service
            /\ SvcStep("NATSService.disconnect", 0, FALSE, "not connected")
       ELSE IF nats_service.running # 0
       THEN /\ nats_service' = nats_service
            /\ SvcStep("NATSService.disconnect", 0, TRUE, "This event loop is already running")
       ELSE /\ nats_service' = [nats_service EXCEPT !._connected = FALSE, !.link = "closed",
                                                    !.queued = {}]
            /\ SvcStep("NATSService.disconnect", 0, FALSE, "closed")
    /\ UNCHANGED appVars

\* the nats client loses the server, finds it again (its buffer goes out;
\* sent keeps the calls that still wait), or gives up
LinkDrop ==
    /\ nats_service.link = "connected"
    /\ nats_service' = [nats_service EXCEPT !.link = "reconnecting",
                                            !.reconnects = 0, !.waits = <<>>]
    /\ SvcStep("link:drop", 0, FALSE, "reconnecting")
    /\ UNCHANGED appVars

LinkRestore ==
    /\ nats_service.link = "reconnecting"
    /\ nats_service' =
          [nats_service EXCEPT
              !.link = "connected", !.queued = {},
              !.sent = @ \cup {t \in nats_service.queued : nats_service.call[t] # "idle"}]
    /\ SvcStep("link:restore", 0, FALSE, "connected")
    /\ UNCHANGED appVars

\* an attempt to reach the server fails: the client counts it and sleeps
\* reconnect_time_wait before the next one
LinkRetry ==
    /\ nats_service.link = "reconnecting"
    /\ nats_service.reconnects < max_reconnect_attempts
    /\ nats_service' =
          [nats_service EXCEPT
              !.reconnects = @ + 1, !.waits = Append(@, reconnect_time_wait)]
    /\ SvcStep("link:retry", 0, FALSE, "reconnecting")
    /\ UNCHANGED appVars

\* after max_reconnect_attempts failed attempts the client gives up
LinkClose ==
    /\ nats_service.link = "reconnecting"
    /\ nats_service.reconnects = max_reconnect_attempts
    /\ nats_service' = [nats_service EXCEPT !.link = "closed", !.queued = {}]
    /\ SvcStep("link:close", 0, FALSE, "closed")
    /\ UNCHANGED appVars

\* The start of request and of publish (nats_service.py:75-82, 105-109):
\* the is_connected test, then loop.run_until_complete, which raises
\* RuntimeError when the loop is already running in another thread.  The
\* nats client takes the message: onto the bus when it is connected, into
\* its buffer while it reconnects.
Begin(op, kind, th, raiseBusy) ==
    /\ nats_service.call[th] = "idle"
    /\ nats_service.calls < MaxCalls
    /\ IF ~is_connected(nats_service)
       THEN /\ nats_service' = [nats_service EXCEPT !.calls = @ + 1]
            /\ SvcStep(op, th, TRUE, "Not connected to NATS")
       ELSE IF nats_service.running # 0
       THEN /\ nats_service' = [nats_service EXCEPT !.calls = @ + 1]
            /\ SvcStep(op, th, raiseBusy, "This event loop is already running")
       ELSE /\ nats_service' =
                  [nats_service EXCEPT
                      !.calls = @ + 1, !.running = th, !.call[th] = kind,
                      !.sent = IF nats_service.link = "connected" THEN @ \cup {th} ELSE @,
                      !.queued = IF nats_service.link = "connected" THEN @ ELSE @ \cup {th}]
            /\ SvcStep(op \o ":begin", th, FALSE, "in flight")
    /\ UNCHANGED appVars

\* the failures nc.request can end with besides the timeout
RequestErrors == {"nats: connection closed", "nats: no responders available for request"}

\* RequestTimeout that lets the NATSTimeoutError leave request
RequestTimeoutRaises(th) ==
    /\ nats_service.call[th] = "request"
    /\ nats_service' = [nats_service EXCEPT !.running = 0, !.call[th] = "idle",
                                            !.sent = @ \ {th}]
    /\ SvcStep("NATSService.request", th, TRUE, "Request timeout")
    /\ UNCHANGED appVars

\* nats_service.py:85-87: no reply within the timeout, NATSTimeoutError.
\* The nats client drops the waiting inbox of the request; a message that
\* never left its buffer stays there.
RequestTimeout(th) ==
    /\ nats_service.call[th] = "request"
    /\ nats_service' = [nats_service EXCEPT !.running = 0, !.call[th] = "idle",
                                            !.sent = @ \ {th}]
    /\ SvcStep("NATSService.request", th, FALSE, "Request timeout")
    /\ UNCHANGED appVars

\* request (nats_service.py:73-90) and _request (92-101)
request ==
    \E th \in Threads :
        \/ Begin("NATSService.request", "request", th, FALSE)
        \/ \* the reply arrives in the inbox of this request
           /\ nats_service.call[th] = "request" /\ th \in nats_service.sent
           /\ nats_service.link = "connected"
           /\ nats_service' = [nats_service EXCEPT !.running = 0, !.call[th] = "idle",
                                                   !.sent = @ \ {th}]
           /\ SvcStep("NATSService.request", th, FALSE, Reply(th))
           /\ UNCHANGED appVars
        \/ RequestTimeout(th)
        \/ \* any other exception of nc.request or of json.loads
           \E e \in RequestErrors :
              /\ nats_service.call[th] = "request"
              /\ nats_service' = [nats_service EXCEPT !.running = 0, !.call[th] = "idle",
                                                      !.sent = @ \ {th}, !.queued = @ \ {th}]
              /\ SvcStep("NATSService.request", th, FALSE, e)
              /\ UNCHANGED appVars

\* publish (nats_service.py:103-112) and _publish (114-118)
publish ==
    \E th \in Threads :
        \/ Begin("NATSService.publish", "publish", th, TRUE)
        \/ /\ nats_service.call[th] = "publish"
           /\ nats_service' = [nats_service EXCEPT !.running = 0, !.call[th] = "idle",
                                                   !.sent = @ \ {th}]
           /\ SvcStep("NATSService.publish", th, FALSE, "published")
           /\ UNCHANGED appVars

\* ------------------------------------------------------------- users table
\* werkzeug.security as models.py uses it: the hash is not the password, and
\* check_password_hash accepts exactly the password the hash was made from.
generate_password_hash(password) == "pbkdf2:sha256$" \o password

check_password_hash(pwhash, password) == pwhash = generate_password_hash(password)

\* User (models.py:11-20); password_hash is nullable and None until
\* set_password (24-26) is called
User(email, name, role, password_hash) ==
    [email |-> email, name |-> name, role |-> role, password_hash |-> password_hash]

\* User.check_password (models.py:28-30): check_password_hash raises on a
\* None hash
check_password(user, password) ==
    IF user.password_hash = None THEN "raises"
    ELSE IF check_password_hash(user.password_hash, password) THEN "True"
    ELSE "False"

\* the users table when the process starts: one account with a local
\* password
LocalUsers ==
    Put(EmptyDict, "local@htpi.com",
        User("local@htpi.com", "Local Admin", "admin", generate_password_hash("secret")))

\* ------------------------------------------------------------------ Init
\* Process start (app.py:1679-1690): in standalone mode init_nats is
\* skipped and nc stays None; otherwise init_nats either connects or logs
\* the failure and leaves nc None.
Init ==
    /\ STANDALONE_MODE \in BOOLEAN
    /\ nc \in (IF STANDALONE_MODE THEN {"None"} ELSE {"None", "connected"})
    /\ connected_clients = EmptyDict
    /\ rooms = {}
    /\ timers = {}
    /\ nextSid = 0
    /\ nextReq = 0
    /\ subscribed = {}
    /\ last = [op |-> "start", sid |-> None, arg |-> None, auth |-> FALSE, emits |-> <<>>, pubs |-> <<>>]
    /\ subscriptions = IF nc = "connected" THEN Subscribed(Patterns) ELSE NotSubscribed
    /\ nats_service = NewService
    /\ handlers = {}
    /\ session = EmptyDict
    /\ db = LocalUsers

\* The nats client loses the server and reconnects on its own; is_connected
\* is false in between.
NatsDrop ==
    /\ nc = "connected"
    /\ nc' = "reconnecting"
    /\ Step("nats:drop", None, None, FALSE, <<>>, <<>>)
    /\ UNCHANGED <<db, session, handlers, nats_service, subscriptions, STANDALONE_MODE, connected_clients, rooms, timers, nextSid, nextReq, subscribed>>

NatsReconnect ==
    /\ nc = "reconnecting"
    /\ nc' = "connected"
    /\ Step("nats:reconnect", None, None, FALSE, <<>>, <<>>)
    /\ UNCHANGED <<db, session, handlers, nats_service, subscriptions, STANDALONE_MODE, connected_clients, rooms, timers, nextSid, nextReq, subscribed>>

\* ------------------------------------------------ connect / disconnect
handle_connect(limit) ==
    /\ nextSid < limit
    /\ LET sid == Sid(nextSid + 1)
           rr == JoinRoom(rooms, sid, sid)
       IN /\ nextSid' = nextSid + 1
          /\ connected_clients' =
                 Put(connected_clients, sid, [sid |-> sid, authenticated |-> FALSE])
          /\ rooms' = rr
          /\ Step("connect", sid, None, FALSE, <<Emit(rr, "connected", "ok", sid)>>, <<>>)
    /\ UNCHANGED <<db, session, handlers, nats_service, subscriptions, STANDALONE_MODE, nc, timers, nextReq, subscribed>>

\* LeaveAll that keeps the subscriptions
LeaveOwnRoom(rr, sid) == {p \in rr : p # <<sid, sid>>}

\* Socket.IO removes a closed connection from every room.
LeaveAll(rr, sid) == {p \in rr : p[1] # sid}

\* A handler that read connected_clients.get(client_id) holds the dict
\* itself; once the entry is deleted nothing writes to that dict any more.
Detached(hs, sid) ==
    {IF h.sid = sid /\ h.client = "entry"
     THEN [h EXCEPT !.client = "dict", !.dict = connected_clients[sid]]
     ELSE h : h \in hs}

handle_disconnect ==
    \E sid \in Participants(rooms) :
        /\ connected_clients' =
               IF sid \in DOMAIN connected_clients
               THEN Del(connected_clients, sid) ELSE connected_clients
        /\ rooms' = LeaveAll(rooms, sid)
        /\ subscribed' = {p \in subscribed : p[1] # sid}
        /\ handlers' = Detached(handlers, sid)
        /\ Step("disconnect", sid, None, FALSE, <<>>, <<>>)
        /\ UNCHANGED <<db, session, nats_service, subscriptions, STANDALONE_MODE, nc, timers, nextSid, nextReq>>

\* ------------------------------------------------------------ auth:login
Emails == {"admin@htpi.com", "user@htpi.com"}
Passwords == {"changeme123", "wrong"}
\* login payloads: the valid pair, a wrong password, a wrong email
Credentials ==
    {c \in [email : Emails, password : Passwords] :
        c.email = "admin@htpi.com" \/ c.password = "changeme123"}

LoginUser(email) ==
    [id |-> "admin-001", email |-> email, name |-> "System Admin", role |-> "admin"]

AdminOk(sid, limit) ==
    <<sid, "admin">> \in rooms \/ Cardinality(Members(rooms, "admin")) < limit

\* LoginFailed that also resets the caller's session
LoginFailedReset(sid, arg, error) ==
    /\ Step("auth:login", sid, arg, FALSE,
            <<Emit(rooms, "auth:login:response", error, sid)>>, <<>>)
    /\ connected_clients' =
           IF sid \in DOMAIN connected_clients
           THEN Put(connected_clients, sid,
                    Put(connected_clients[sid], "authenticated", FALSE))
           ELSE connected_clients
    /\ UNCHANGED <<db, session, handlers, nats_service, subscriptions, STANDALONE_MODE, nc, rooms, timers, nextSid, nextReq, subscribed>>

\* LoginFailed after a join_room('admin') placed before the credential test
LoginFailedJoined(sid, arg, error) ==
    /\ rooms' = JoinRoom(rooms, sid, "admin")
    /\ Step("auth:login", sid, arg, FALSE,
            <<Emit(rooms', "auth:login:response", error, sid)>>, <<>>)
    /\ UNCHANGED <<db, session, handlers, nats_service, subscriptions, STANDALONE_MODE, nc, connected_clients, timers, nextSid, nextReq,
                   subscribed>>

\* the branches of handle_login that answer success false
LoginFailed(sid, arg, error) ==
    /\ Step("auth:login", sid, arg, FALSE,
            <<Emit(rooms, "auth:login:response", error, sid)>>, <<>>)
    /\ UNCHANGED <<db, session, handlers, nats_service, subscriptions, STANDALONE_MODE, nc, connected_clients, rooms, timers, nextSid, nextReq,
                   subscribed>>

handle_login(limit) ==
    \E sid \in Opened, arg \in Credentials :
        LET email == arg.email
            password == arg.password IN
        IF NatsConnected
        THEN LoginFailed(sid, arg, "Authentication service not available")
        ELSE IF email = "admin@htpi.com" /\ password = "changeme123"
        THEN IF sid \in DOMAIN connected_clients
             THEN /\ AdminOk(sid, limit)
                  /\ LET c1 == Put(connected_clients[sid], "authenticated", TRUE)
                         c2 == Put(c1, "user", LoginUser(email))
                         c3 == Put(c2, "token", "dev-token")
                         c4 == Put(c3, "role", "admin")
                         rr == JoinRoom(JoinRoom(rooms, sid, "admin"),
                                        sid, "admin:" \o LoginUser(email).id)
                     IN /\ connected_clients' = Put(connected_clients, sid, c4)
                        /\ rooms' = rr
                        /\ Step("auth:login", sid, arg, FALSE,
                                <<Emit(rr, "auth:login:response", "ok", sid)>>, <<>>)
                        /\ UNCHANGED <<db, session, handlers, nats_service, subscriptions, STANDALONE_MODE, nc, timers, nextSid, nextReq, subscribed>>
             ELSE \* KeyError on connected_clients[client_id]: the except branch
                  LoginFailed(sid, arg, "Authentication failed")
        ELSE LoginFailed(sid, arg, "Invalid credentials")

\* ------------------------------------------------------ handler payloads
\* Payloads are dicts; a key the client left out is Missing.
TenantInputs == {"tenant-001", "tenant-002", Missing}
RequestInputs == {"r1", Missing}
PayloadTenants == {"tenant-001", Missing}

\* f"<action>:response:{data.get('requestId')}"
ResponseEv(action, requestId) == action \o ":response:" \o Str(PGet(requestId))
\* f"admin:<kind>:{tenant_id}"
TenantRoom(kind, tenant_id) == "admin:" \o kind \o ":" \o Str(tenant_id)

LoginRooms == {"admin", "admin:admin-001"}
\* memberships made by the subscribe handlers
Subscriptions(rr) == {p \in rr : p[2] # p[1] /\ p[2] \notin LoginRooms}
HasKey(sid, k) == sid \in DOMAIN connected_clients /\ k \in DOMAIN connected_clients[sid]
Held ==
    Cardinality(Subscriptions(rooms))
    + Cardinality({s \in DOMAIN connected_clients : HasKey(s, "current_tenant")})
    + Cardinality({s \in DOMAIN connected_clients : HasKey(s, "health_checks")})
SubOk(sid, room, limit) == <<sid, room>> \in rooms \/ Held < limit
KeyOk(sid, k, limit) == HasKey(sid, k) \/ Held < limit

\* an authorized handler that changes nothing but what it emits
Answer(op, sid, emits, pubs) ==
    /\ Step(op, sid, None, TRUE, emits, pubs)
    /\ UNCHANGED <<db, session, handlers, nats_service, subscriptions, STANDALONE_MODE, nc, connected_clients, rooms, timers, nextSid, nextReq, subscribed>>

\* an authorized handler that joins a room and then emits
JoinAndAnswer(op, sid, topic, room, emits, pubs) ==
    /\ rooms' = JoinRoom(rooms, sid, room)
    /\ subscribed' = subscribed \cup {<<sid, topic>>}
    /\ Step(op, sid, None, TRUE, emits, pubs)
    /\ UNCHANGED <<db, session, handlers, nats_service, subscriptions, STANDALONE_MODE, nc, connected_clients, timers, nextSid, nextReq>>

\* -------------------------------------------------------- tenant handlers
handle_tenants_subscribe(limit) ==
    \E sid \in Opened :
        LET op == "admin:tenants:subscribe" IN
        IF ~IsAdmin(sid) THEN AccessDenied(op, sid)
        ELSE /\ SubOk(sid, "admin:tenants", limit)
             /\ JoinAndAnswer(op, sid, <<"tenants", None>>, "admin:tenants",
                    IF NatsConnected THEN <<>>
                    ELSE <<Emit(rooms, "admin:tenants:list", "ok", sid)>>, <<>>)

\* the three handlers whose bus branch is the stub
\* result = {'success': False, 'error': 'NATS not available in sync mode'}
SyncModeStub(op, sid) ==
    IF ~IsAdmin(sid) THEN AccessDenied(op, sid)
    ELSE \E requestId \in RequestInputs :
        Answer(op, sid,
            IF NatsConnected
            THEN <<Emit(rooms, ResponseEv(op, requestId),
                        "NATS not available in sync mode", sid)>>
            ELSE <<>>, <<>>)

handle_create_tenant == \E sid \in Opened : SyncModeStub("admin:tenants:create", sid)

handle_tenant_subscribe(limit, tenants) ==
    \E sid \in Opened :
        LET op == "admin:tenant:subscribe" IN
        IF ~IsAdmin(sid) THEN AccessDenied(op, sid)
        ELSE \E tenantId \in tenants :
            LET room == TenantRoom("tenant", PGet(tenantId)) IN
            /\ SubOk(sid, room, limit)
            /\ JoinAndAnswer(op, sid, <<"tenant", PGet(tenantId)>>, room,
                   IF NatsConnected THEN <<>>
                   ELSE <<Emit(rooms, "admin:tenant:data", "ok", sid)>>, <<>>)

handle_add_user_to_tenant == \E sid \in Opened : SyncModeStub("admin:tenant:user:add", sid)

handle_add_claimmd == \E sid \in Opened : SyncModeStub("admin:tenant:claimmd:add", sid)

\* tenant_map with an entry for an id that is no tenant
tenant_mapOpen == {"tenant-001", "tenant-002", "tenant-003", "tenant-999"}

\* known tenants of the mock lookup (app.py:1265-1269)
tenant_map == {"tenant-001", "tenant-002", "tenant-003"}
\* data.get('tenantId'): a known id, an unknown id, the empty string, no key
SwitchInputs == {"tenant-001", "tenant-999", "", Missing}

\* app.py:1249-1304; 'if tenant_id:' is false for None and for ''
handle_tenant_switch(limit) ==
    \E sid \in Opened :
        LET op == "admin:tenant:switch" IN
        IF ~IsAdmin(sid) THEN AccessDenied(op, sid)
        ELSE \E tenantId \in SwitchInputs, requestId \in RequestInputs :
            LET tenant_id == PGet(tenantId)
                ev == ResponseEv(op, requestId) IN
            IF tenant_id \notin {None, ""} /\ tenant_id \notin tenant_map
            THEN /\ Step(op, sid, tenantId, TRUE,
                         <<Emit(rooms, ev, "Tenant not found", sid)>>, <<>>)
                 /\ UNCHANGED <<db, session, handlers, nats_service, subscriptions, STANDALONE_MODE, nc, connected_clients, rooms, timers, nextSid, nextReq, subscribed>>
            ELSE /\ KeyOk(sid, "current_tenant", limit)
                 /\ connected_clients' =
                       Put(connected_clients, sid,
                           Put(connected_clients[sid], "current_tenant",
                               IF tenant_id \in tenant_map THEN tenant_id ELSE None))
                 /\ Step(op, sid, tenantId, TRUE, <<Emit(rooms, ev, "ok", sid)>>, <<>>)
                 /\ UNCHANGED <<db, session, handlers, nats_service, subscriptions, STANDALONE_MODE, nc, rooms, timers, nextSid, nextReq, subscribed>>

\* ------------------------------------------------------- patient handlers
handle_patients_subscribe(limit, tenants) ==
    \E sid \in Opened :
        LET op == "admin:patients:subscribe" IN
        IF ~IsAdmin(sid) THEN AccessDenied(op, sid)
        ELSE \E tenantId \in tenants :
            LET room == TenantRoom("patients", PGet(tenantId)) IN
            /\ SubOk(sid, room, limit)
            /\ IF STANDALONE_MODE
               THEN JoinAndAnswer(op, sid, <<"patients", PGet(tenantId)>>, room,
                        <<Emit(rooms, "admin:patients:list", "ok", sid)>>, <<>>)
               ELSE JoinAndAnswer(op, sid, <<"patients", PGet(tenantId)>>, room,
                        <<Emit(rooms, "admin:patients:list",
                               IF publish_to_nats("patient.list") # None THEN "ok"
                               ELSE "Service temporarily unavailable", sid)>>,
                        <<PubRec("patient.list")>>)

handle_create_patient ==
    \E sid \in Opened :
        LET op == "admin:patients:create" IN
        IF ~IsAdmin(sid) THEN AccessDenied(op, sid)
        ELSE \E tenantId \in PayloadTenants, requestId \in RequestInputs :
            LET ev == ResponseEv(op, requestId) IN
            IF STANDALONE_MODE
            THEN Answer(op, sid,
                     <<Emit(rooms, ev, "ok", sid)>> \o
                     (IF tenantId # Missing
                      THEN <<SocketioEmit(rooms, "admin:patients:created", "ok",
                                          TenantRoom("patients", tenantId))>>
                      \* data['tenantId'] raises KeyError: the except branch answers again
                      ELSE <<Emit(rooms, ev, "Failed to process request", sid)>>), <<>>)
            ELSE IF NatsConnected
            THEN Answer(op, sid,
                     IF publish_to_nats("patient.create") # None THEN <<>>
                     ELSE <<Emit(rooms, ev, "Service temporarily unavailable", sid)>>,
                     <<PubRec("patient.create")>>)
            ELSE Answer(op, sid, <<Emit(rooms, ev, "Message broker offline", sid)>>, <<>>)

handle_patients_list_simple ==
    \E sid \in Opened :
        LET op == "admin:patients:list:simple" IN
        IF ~IsAdmin(sid) THEN AccessDenied(op, sid)
        ELSE Answer(op, sid, <<Emit(rooms, op, "ok", sid)>>, <<>>)

\* ----------------------------------- encounter, insurance, claim handlers
\* The subscribe handlers of encounters, insurance and claims join the
\* tenant's room and answer with mock data.
MockSubscribe(kind, sid, limit) ==
    LET op == "admin:" \o kind \o ":subscribe" IN
    IF ~IsAdmin(sid) THEN AccessDenied(op, sid)
    ELSE \E tenantId \in PayloadTenants :
        LET room == TenantRoom(kind, PGet(tenantId)) IN
        /\ SubOk(sid, room, limit)
        /\ JoinAndAnswer(op, sid, <<kind, PGet(tenantId)>>, room,
               <<Emit(rooms, "admin:" \o kind \o ":list", "ok", sid)>>, <<>>)

\* The create handlers of encounters and insurance build the object first;
\* complete says that the payload has every key read with data[...] before
\* data['tenantId'] (patientId, providerId, ...).  A KeyError is raised
\* before anything is emitted and the except branch answers.
MockCreate(kind, sid, failure) ==
    LET op == "admin:" \o kind \o ":create" IN
    IF ~IsAdmin(sid) THEN AccessDenied(op, sid)
    ELSE \E tenantId \in PayloadTenants, requestId \in RequestInputs, complete \in BOOLEAN :
        LET ev == ResponseEv(op, requestId) IN
        IF complete /\ tenantId # Missing
        THEN Answer(op, sid,
                 <<SocketioEmit(rooms, "admin:" \o kind \o ":created", "ok",
                                TenantRoom(kind, tenantId)),
                   Emit(rooms, ev, "ok", sid)>>, <<>>)
        ELSE Answer(op, sid, <<Emit(rooms, ev, failure, sid)>>, <<>>)

handle_encounters_subscribe(limit) == \E sid \in Opened : MockSubscribe("encounters", sid, limit)

handle_create_encounter ==
    \E sid \in Opened : MockCreate("encounters", sid, "Failed to create encounter")

handle_update_encounter_status ==
    \E sid \in Opened :
        LET op == "admin:encounters:update:status" IN
        IF ~IsAdmin(sid) THEN AccessDenied(op, sid)
        ELSE \E tenantId \in PayloadTenants :
            Answer(op, sid,
                <<SocketioEmit(rooms, "admin:encounters:update", "ok",
                               TenantRoom("encounters", PGet(tenantId)))>>, <<>>)

handle_insurance_subscribe(limit) == \E sid \in Opened : MockSubscribe("insurance", sid, limit)

handle_create_insurance ==
    \E sid \in Opened : MockCreate("insurance", sid, "Failed to create insurance")

handle_eligibility_check ==
    \E sid \in Opened :
        LET op == "admin:insurance:eligibility:check" IN
        IF ~IsAdmin(sid) THEN AccessDenied(op, sid)
        ELSE Answer(op, sid,
                 <<Emit(rooms, "admin:insurance:eligibility:response", "ok", sid)>>, <<>>)

handle_claims_subscribe(limit) == \E sid \in Opened : MockSubscribe("claims", sid, limit)

handle_create_claim ==
    \E sid \in Opened :
        LET op == "admin:claims:create" IN
        IF ~IsAdmin(sid) THEN AccessDenied(op, sid)
        ELSE \E requestId \in RequestInputs :
            Answer(op, sid, <<Emit(rooms, ResponseEv(op, requestId), "ok", sid)>>, <<>>)

\* services:nats:monitor: outside standalone mode the answer depends on the
\* HTTP request to the NATS monitoring port, which either returns or raises.
handle_nats_monitor ==
    \E sid \in Opened :
        LET op == "services:nats:monitor" IN
        IF ~IsAdmin(sid) THEN AccessDenied(op, sid)
        ELSE \E httpOk \in BOOLEAN :
            Answer(op, sid,
                <<Emit(rooms, "services:nats:monitor:response",
                       IF STANDALONE_MODE \/ httpOk THEN "ok" ELSE "request failed",
                       sid)>>, <<>>)

\* ------------------------------------------------- services:status:check
\* services_to_check (app.py:1319-1332)
services_to_check ==
    <<"htpi-admin-portal", "htpi-customer-portal", "htpi-gateway-service",
      "htpi-admin-service", "htpi-auth-service", "htpi-tenant-service",
      "htpi-patients-service", "htpi-insurance-service", "htpi-dashboard-service",
      "htpi-encounters-service", "htpi-mongodb-service", "htpi-nats">>
Range(seq) == {seq[i] : i \in 1..Len(seq)}

\* service_id.replace('-', '.')
Dotted(service_id) ==
    CASE service_id = "htpi-admin-portal" -> "htpi.admin.portal"
      [] service_id = "htpi-customer-portal" -> "htpi.customer.portal"
      [] service_id = "htpi-gateway-service" -> "htpi.gateway.service"
      [] service_id = "htpi-admin-service" -> "htpi.admin.service"
      [] service_id = "htpi-auth-service" -> "htpi.auth.service"
      [] service_id = "htpi-tenant-service" -> "htpi.tenant.service"
      [] service_id = "htpi-patients-service" -> "htpi.patients.service"
      [] service_id = "htpi-insurance-service" -> "htpi.insurance.service"
      [] service_id = "htpi-dashboard-service" -> "htpi.dashboard.service"
      [] service_id = "htpi-encounters-service" -> "htpi.encounters.service"
      [] service_id = "htpi-mongodb-service" -> "htpi.mongodb.service"
      [] service_id = "htpi-nats" -> "htpi.nats"
      [] OTHER -> service_id

\* f"htpi.health.{service_id.replace('-', '.')}"
HealthSubject(service_id) == "htpi.health." \o Dotted(service_id)

\* the status of each service in the mock branch (app.py:1336-1344)
MockStatus(service_id) ==
    IF service_id \in {"htpi-admin-portal", "htpi-gateway-service", "htpi-auth-service"}
    THEN "healthy" ELSE "down"

\* the payloads of 'services:status:response' (app.py:1398-1402, 1436-1439)
StatusResponse(service_status, requestId) ==
    [success |-> TRUE, status |-> service_status, requestId |-> requestId]
StatusFailure(error) == [success |-> FALSE, error |-> error]

\* the status recorded for each service in the bus branch (app.py:1354-1381)
BusStatus(service_id) ==
    IF service_id = "htpi-nats"
    THEN (IF NatsConnected THEN "healthy" ELSE "down")
    ELSE IF publish_to_nats(HealthSubject(service_id)) # None THEN "checking"
    ELSE "unknown"

\* service_status with the 'mongodb' entry added (app.py:1383-1388)
WithMongo(st) ==
    Put(st, "mongodb",
        IF Get(st, "htpi-mongodb-service", None) \in {"healthy", "checking"}
        THEN "healthy" ELSE "down")

Pending(st) == Cardinality({k \in DOMAIN st : st[k] = "checking"})

HealthChecks(cc, sid) ==
    IF sid \in DOMAIN cc THEN Get(cc[sid], "health_checks", EmptyDict) ELSE EmptyDict

handle_service_status_check(limit, maxChecks) ==
    \E sid \in Opened :
        LET op == "services:status:check" IN
        IF ~IsAdmin(sid) THEN AccessDenied(op, sid)
        ELSE IF ~KeyOk(sid, "health_checks", limit) THEN FALSE
        ELSE IF STANDALONE_MODE \/ ~NatsConnected
        THEN \* service_status is filled with the mock statuses, but
             \* health_check_request is never assigned on this path: line 1391
             \* creates the dict, line 1393 raises before anything is stored
             \* or emitted, and the except branch answers
             /\ LET service_status ==
                        WithMongo([k \in Range(services_to_check) |-> MockStatus(k)])
                IN DOMAIN service_status # {}
             /\ connected_clients' =
                    Put(connected_clients, sid,
                        Put(connected_clients[sid], "health_checks",
                            HealthChecks(connected_clients, sid)))
             /\ Step(op, sid, None, TRUE,
                     <<Emit(rooms, "services:status:response",
                            StatusFailure("UnboundLocalError"), sid)>>,
                     <<>>)
             /\ UNCHANGED <<db, session, handlers, nats_service, subscriptions, STANDALONE_MODE, nc, rooms, timers, nextSid, nextReq, subscribed>>
        ELSE /\ nextReq < maxChecks
             /\ LET rid == ReqId(nextReq + 1)
                    service_status ==
                        WithMongo([k \in Range(services_to_check) |-> BusStatus(k)])
                    entry == [status |-> service_status, pending |-> Pending(service_status)]
                    checks == Put(HealthChecks(connected_clients, sid), rid, entry)
                IN /\ nextReq' = nextReq + 1
                   /\ connected_clients' =
                          Put(connected_clients, sid,
                              Put(connected_clients[sid], "health_checks", checks))
                   /\ timers' = timers \cup {<<sid, rid>>}
                   /\ Step(op, sid, rid, TRUE,
                           <<Emit(rooms, "services:status:response",
                                  StatusResponse(service_status, rid), sid)>>,
                           [i \in 1..(Len(services_to_check) - 1) |->
                               PubRec(HealthSubject(services_to_check[i]))])
             /\ UNCHANGED <<db, session, handlers, nats_service, subscriptions, STANDALONE_MODE, nc, rooms, nextSid, subscribed>>

\* for service_id, status in current_status.items(): 'checking' becomes 'down'
MarkDown(st) == [k \in DOMAIN st |-> IF st[k] = "checking" THEN "down" ELSE st[k]]

\* The Timer thread (app.py:1406-1432).  emitOk: whether socketio.emit
\* returns; when it raises, the except clause ends the function before the
\* del statement.
Finalize(t) ==
    \E emitOk \in BOOLEAN :
        LET client_id == t[1]
            rid == t[2] IN
        /\ t \in timers
        /\ timers' = timers \ {t}
        /\ IF rid \in DOMAIN HealthChecks(connected_clients, client_id)
           THEN LET checks == HealthChecks(connected_clients, client_id)
                    current_status == MarkDown(checks[rid].status)
                    marked == Put(checks, rid, [checks[rid] EXCEPT !.status = current_status])
                IN /\ connected_clients' =
                          Put(connected_clients, client_id,
                              Put(connected_clients[client_id], "health_checks",
                                  IF emitOk THEN Del(marked, rid) ELSE marked))
                   /\ Step("finalize", client_id, rid, FALSE,
                           IF emitOk
                           THEN <<SocketioEmit(rooms, "services:status:update",
                                               [requestId |-> rid, status |-> current_status],
                                               client_id)>>
                           ELSE <<>>, <<>>)
           ELSE /\ connected_clients' = connected_clients
                /\ Step("finalize", client_id, rid, FALSE, <<>>, <<>>)
        /\ UNCHANGED <<db, session, handlers, nats_service, subscriptions, STANDALONE_MODE, nc, rooms, nextSid, nextReq, subscribed>>

finalize_health_status == \E t \in timers : Finalize(t)

\* The Timer thread taken statement by statement, for the interleavings
\* with the other threads.  A timer that passed the test of app.py:1408
\* stays in timers with its position: <<client_id, requestId, "emit">>
\* before the emit of 1418-1421, <<client_id, requestId, "del">> before the
\* del of 1424.
TimerAt(t, pos) == Len(t) = 3 /\ t[3] = pos
Started == {t \in timers : Len(t) = 2}

\* app.py:1408-1415: the test, then the marking loop
FinalizeMark ==
    \E t \in Started :
        LET client_id == t[1]
            rid == t[2]
            checks == HealthChecks(connected_clients, client_id) IN
        /\ IF rid \in DOMAIN checks
           THEN /\ connected_clients' =
                       Put(connected_clients, client_id,
                           Put(connected_clients[client_id], "health_checks",
                               Put(checks, rid,
                                   [checks[rid] EXCEPT !.status = MarkDown(checks[rid].status)])))
                /\ timers' = (timers \ {t}) \cup {<<client_id, rid, "emit">>}
           ELSE /\ connected_clients' = connected_clients
                /\ timers' = timers \ {t}
        /\ Step("finalize:mark", client_id, rid, FALSE, <<>>, <<>>)
        /\ UNCHANGED <<db, session, handlers, nats_service, subscriptions, STANDALONE_MODE, nc, rooms, nextSid, nextReq, subscribed>>

\* FinalizeEmit with the room left out
FinalizeEmitBroadcast ==
    \E t \in {u \in timers : TimerAt(u, "emit")}, emitOk \in BOOLEAN :
        LET client_id == t[1]
            rid == t[2]
            checks == HealthChecks(connected_clients, client_id)
            current_status == IF rid \in DOMAIN checks THEN checks[rid].status
                              ELSE EmptyDict IN
        /\ timers' = IF emitOk THEN (timers \ {t}) \cup {<<client_id, rid, "del">>}
                     ELSE timers \ {t}
        /\ Step("finalize:emit", client_id, rid, FALSE,
                IF emitOk
                THEN <<SocketioEmit(rooms, "services:status:update",
                                    [requestId |-> rid, status |-> current_status],
                                    None)>>
                ELSE <<>>, <<>>)
        /\ UNCHANGED <<db, session, handlers, nats_service, subscriptions, STANDALONE_MODE, nc, connected_clients,
                       rooms, nextSid, nextReq, subscribed>>

\* app.py:1418-1421: current_status is the dict stored in the entry, so the
\* payload is what the entry holds now.  Once the connection is gone the
\* room client_id has no member and the payload reaches nobody.
FinalizeEmit ==
    \E t \in {u \in timers : TimerAt(u, "emit")}, emitOk \in BOOLEAN :
        LET client_id == t[1]
            rid == t[2]
            checks == HealthChecks(connected_clients, client_id)
            current_status == IF rid \in DOMAIN checks THEN checks[rid].status
                              ELSE EmptyDict IN
        /\ timers' = IF emitOk THEN (timers \ {t}) \cup {<<client_id, rid, "del">>}
                     ELSE timers \ {t}
        /\ Step("finalize:emit", client_id, rid, FALSE,
                IF emitOk
                THEN <<SocketioEmit(rooms, "services:status:update",
                                    [requestId |-> rid, status |-> current_status],
                                    client_id)>>
                ELSE <<>>, <<>>)
        /\ UNCHANGED <<db, session, handlers, nats_service, subscriptions, STANDALONE_MODE, nc, connected_clients, rooms, nextSid, nextReq,
                       subscribed>>

\* app.py:1424: the del; a KeyError (connection or entry gone) is caught
FinalizeDel ==
    \E t \in {u \in timers : TimerAt(u, "del")} :
        LET client_id == t[1]
            rid == t[2]
            checks == HealthChecks(connected_clients, client_id) IN
        /\ connected_clients' =
               IF rid \in DOMAIN checks
               THEN Put(connected_clients, client_id,
                        Put(connected_clients[client_id], "health_checks", Del(checks, rid)))
               ELSE connected_clients
        /\ timers' = timers \ {t}
        /\ Step("finalize:del", client_id, rid, FALSE, <<>>, <<>>)
        /\ UNCHANGED <<db, session, handlers, nats_service, subscriptions, STANDALONE_MODE, nc, rooms, nextSid, nextReq, subscribed>>

\* ---------------------------------------------- bus callbacks: health
\* A message on admin.health.response.*; every field is the responder's.
ReplyStatuses == {"healthy", "checking", Missing}
ReplyServices == {"htpi-mongodb-service", "htpi-nats", "mongodb", "htpi-unknown"}
IssuedRequests == {ReqId(i) : i \in 1..nextReq}

\* KnownSlot without the test of the service id
KnownRequest(client_id, requestId, serviceId) ==
    /\ client_id \in DOMAIN connected_clients
    /\ requestId \in DOMAIN HealthChecks(connected_clients, client_id)

\* the three nested tests of app.py:1616-1621
KnownSlot(client_id, requestId, serviceId) ==
    /\ client_id \in DOMAIN connected_clients
    /\ requestId \in DOMAIN HealthChecks(connected_clients, client_id)
    /\ serviceId \in DOMAIN HealthChecks(connected_clients, client_id)[requestId].status

handle_health_response ==
    \/ \* the message is not JSON: json.loads raises, the callback logs it
       /\ NatsConnected
       /\ Step("health:response", None,
               [clientId |-> Missing, requestId |-> Missing, serviceId |-> Missing,
                raised |-> TRUE], FALSE, <<>>, <<>>)
       /\ UNCHANGED <<db, session, handlers, nats_service, subscriptions, STANDALONE_MODE, nc, connected_clients,
                      rooms, timers, nextSid, nextReq, subscribed>>
    \/
       \E clientId \in Opened \cup {Missing},
          requestId \in IssuedRequests \cup {"uuid-unknown"},
          serviceId \in ReplyServices, status \in ReplyStatuses :
           LET client_id == PGet(clientId)
               health_checks == HealthChecks(connected_clients, client_id)
               arg == [clientId |-> clientId, requestId |-> requestId, serviceId |-> serviceId,
                       raised |-> FALSE]
           IN
           /\ NatsConnected
           /\ IF KnownSlot(client_id, requestId, serviceId)
              THEN LET new == IF status = Missing THEN "healthy" ELSE status
                       entry == [health_checks[requestId] EXCEPT
                                    !.status = Put(health_checks[requestId].status,
                                                   serviceId, new)]
                   IN /\ connected_clients' =
                             Put(connected_clients, client_id,
                                 Put(connected_clients[client_id], "health_checks",
                                     Put(health_checks, requestId, entry)))
                      /\ Step("health:response", None, arg, FALSE,
                              <<SocketioEmit(rooms, "services:status:update",
                                             [requestId |-> requestId, serviceId |-> serviceId,
                                              status |-> new], client_id)>>, <<>>)
              ELSE /\ connected_clients' = connected_clients
                   /\ Step("health:response", None, arg, FALSE, <<>>, <<>>)
           /\ UNCHANGED <<db, session, handlers, nats_service, subscriptions, STANDALONE_MODE, nc, rooms, timers, nextSid, nextReq, subscribed>>

\* -------------------------------------- bus callbacks: updates and replies
\* A message is a JSON object whose fields are the responder's; Missing is
\* a field the responder left out.  The callbacks run only while the
\* subscriptions made by init_nats are served, i.e. while nc is connected.

\* admin.tenants.updates (app.py:1531-1546).  tenant: the id inside
\* data['tenant'], "no-id" for a tenant object without 'id', Missing for no
\* 'tenant' key.
handle_tenant_update ==
    \E type \in {"created", "updated", Missing},
       tenant \in {"tenant-001", "no-id", Missing}, parsed \in BOOLEAN :
        /\ NatsConnected
        /\ Step("bus:tenant_update", None,
                Raised(~parsed \/ (type # Missing /\ tenant = Missing)
                               \/ (type = "updated" /\ tenant = "no-id")),
                FALSE,
                IF ~parsed \/ tenant = Missing \/ type = Missing THEN <<>>
                ELSE IF type = "created"
                THEN <<SocketioEmit(rooms, "admin:tenants:created", "ok", "admin:tenants")>>
                ELSE <<SocketioEmit(rooms, "admin:tenants:update", "ok", "admin:tenants")>> \o
                     (IF tenant = "no-id" THEN <<>>
                      ELSE <<SocketioEmit(rooms, "admin:tenant:update", "ok",
                                          TenantRoom("tenant", tenant))>>),
                <<>>)
        /\ UNCHANGED <<db, session, handlers, nats_service, subscriptions, STANDALONE_MODE, nc, connected_clients, rooms, timers, nextSid, nextReq, subscribed>>

\* admin.patients.response.* and admin.broadcast.patients.* (app.py:1549-1574).
\* complete: the message has 'requestId' and 'patient'.  clients: the
\* clientId values the replies carry.
handle_patient_response(clients) ==
    \E responseType \in {"list", "created"},
       clientId \in clients,
       tenantId \in TenantInputs, complete \in BOOLEAN, parsed \in BOOLEAN :
        /\ NatsConnected
        /\ Step("bus:patient_response", None,
                [tenantId |-> tenantId,
                 raised |-> ~parsed \/ tenantId = Missing \/ (responseType = "created" /\ ~complete)],
                FALSE,
                IF ~parsed THEN <<>>
                ELSE IF responseType = "list"
                THEN (IF tenantId = Missing THEN <<>>
                      ELSE <<SocketioEmit(rooms, "admin:patients:list", "ok",
                                          TenantRoom("patients", tenantId))>>)
                ELSE IF ~complete THEN <<>>
                ELSE <<SocketioEmit(rooms, ResponseEv("admin:patients:create", "r1"), "ok",
                                    PGet(clientId))>> \o
                     (IF tenantId = Missing THEN <<>>
                      ELSE <<SocketioEmit(rooms, "admin:patients:created", "ok",
                                          TenantRoom("patients", tenantId))>>),
                <<>>)
        /\ UNCHANGED <<db, session, handlers, nats_service, subscriptions, STANDALONE_MODE, nc, connected_clients, rooms, timers, nextSid, nextReq, subscribed>>

\* admin.insurance.response.* (app.py:1576-1588)
handle_insurance_response ==
    \E responseType \in {"eligibility", Missing}, clientId \in Opened \cup {Missing},
       parsed \in BOOLEAN :
        /\ NatsConnected
        /\ Step("bus:insurance_response", None, Raised(~parsed), FALSE,
                IF parsed /\ responseType = "eligibility"
                THEN <<SocketioEmit(rooms, "admin:insurance:eligibility:response", "ok",
                                    PGet(clientId))>>
                ELSE <<>>, <<>>)
        /\ UNCHANGED <<db, session, handlers, nats_service, subscriptions, STANDALONE_MODE, nc, connected_clients, rooms, timers, nextSid, nextReq, subscribed>>

\* admin.claims.response.* and admin.broadcast.claims.* (app.py:1590-1605).
\* complete: the message has 'claimMdId' and 'status'.
handle_claims_response ==
    \E responseType \in {"status_update", Missing},
       tenantId \in PayloadTenants, complete \in BOOLEAN, parsed \in BOOLEAN :
        /\ NatsConnected
        /\ Step("bus:claims_response", None,
                Raised(~parsed \/ (responseType = "status_update"
                                    /\ (~complete \/ tenantId = Missing))),
                FALSE,
                IF parsed /\ responseType = "status_update" /\ complete /\ tenantId # Missing
                THEN <<SocketioEmit(rooms, "admin:claims:status:update", "ok",
                                    TenantRoom("claims", tenantId))>>
                ELSE <<>>, <<>>)
        /\ UNCHANGED <<db, session, handlers, nats_service, subscriptions, STANDALONE_MODE, nc, connected_clients, rooms, timers, nextSid, nextReq, subscribed>>

Next ==
    \/ NatsDrop
    \/ NatsReconnect
    \/ handle_connect(MaxConn)
    \/ handle_disconnect
    \/ handle_login(MaxAdmins)
    \/ handle_tenants_subscribe(MaxHeld)
    \/ handle_create_tenant
    \/ handle_tenant_subscribe(MaxHeld, PayloadTenants)
    \/ handle_add_user_to_tenant
    \/ handle_add_claimmd
    \/ handle_tenant_switch(MaxHeld)
    \/ handle_patients_subscribe(MaxHeld, PayloadTenants)
    \/ handle_create_patient
    \/ handle_patients_list_simple
    \/ handle_encounters_subscribe(MaxHeld)
    \/ handle_create_encounter
    \/ handle_update_encounter_status
    \/ handle_insurance_subscribe(MaxHeld)
    \/ handle_create_insurance
    \/ handle_eligibility_check
    \/ handle_claims_subscribe(MaxHeld)
    \/ handle_create_claim
    \/ handle_nats_monitor
    \/ handle_service_status_check(MaxHeld, MaxChecks)
    \/ finalize_health_status

Spec == Init /\ [][Next]_vars

\* The health-check aggregation with the bus replies.
NextHealth ==
    \/ NatsDrop
    \/ NatsReconnect
    \/ handle_connect(MaxConn)
    \/ handle_disconnect
    \/ handle_login(MaxAdmins)
    \/ handle_service_status_check(MaxHeld, MaxChecks)
    \/ handle_health_response
    \/ finalize_health_status

SpecHealth == Init /\ [][NextHealth]_vars

\* Room fan-out: the subscriptions of several connections and the bus
\* callbacks that broadcast to them.
FanoutAdmins == FanoutConn - 1
FanoutTenants == {"tenant-001", "tenant-002"}

NextFanout ==
    \/ NatsDrop
    \/ NatsReconnect
    \/ handle_connect(FanoutConn)
    \/ handle_disconnect
    \/ handle_login(FanoutAdmins)
    \/ handle_tenants_subscribe(FanoutAdmins)
    \/ handle_patients_subscribe(FanoutAdmins, FanoutTenants)
    \/ handle_tenant_update
    \/ handle_patient_response({Missing})

\* production mode, init_nats succeeded
InitFanout == Init /\ ~STANDALONE_MODE /\ nc = "connected"

SpecFanout == InitFanout /\ [][NextFanout]_vars

\* Replies from the bus that are addressed to one connection.
\* every bus callback, with the subscriptions of the connections
NextBus ==
    \/ NatsDrop \/ NatsReconnect
    \/ handle_connect(MaxConn) \/ handle_disconnect \/ handle_login(MaxAdmins)
    \/ handle_tenants_subscribe(MaxHeld)
    \/ handle_patients_subscribe(MaxHeld, PayloadTenants)
    \/ handle_claims_subscribe(MaxHeld)
    \/ handle_tenant_update
    \/ handle_patient_response(Opened \cup {Missing})
    \/ handle_insurance_response
    \/ handle_claims_response
    \/ handle_service_status_check(MaxHeld, MaxChecks)
    \/ handle_health_response
    \/ finalize_health_status
SpecBus == Init /\ [][NextBus]_vars

NextReply ==
    \/ NatsDrop
    \/ NatsReconnect
    \/ handle_connect(MaxConn)
    \/ handle_disconnect
    \/ handle_login(MaxAdmins)
    \/ handle_patients_subscribe(MaxHeld, PayloadTenants)
    \/ handle_create_patient
    \/ handle_eligibility_check
    \/ handle_patient_response(Opened \cup {Missing})
    \/ handle_insurance_response
    \/ handle_claims_response
    \/ handle_service_status_check(MaxHeld, MaxChecks)
    \/ handle_health_response
    \/ finalize_health_status

SpecReply == Init /\ [][NextReply]_vars

\* ================================================================ claims
GatedOps ==
    {"admin:tenants:subscribe", "admin:tenants:create", "admin:tenant:subscribe",
     "admin:tenant:user:add", "admin:tenant:claimmd:add", "admin:tenant:switch",
     "admin:patients:subscribe", "admin:patients:create", "admin:patients:list:simple",
     "admin:encounters:subscribe", "admin:encounters:create",
     "admin:encounters:update:status", "admin:insurance:subscribe",
     "admin:insurance:create", "admin:insurance:eligibility:check",
     "admin:claims:subscribe", "admin:claims:create", "services:nats:monitor",
     "services:status:check"}

\* the caller has an entry with authenticated true and role 'admin'
SessionIsAdmin(cc, sid) ==
    /\ sid \in DOMAIN cc
    /\ "authenticated" \in DOMAIN cc[sid] /\ cc[sid].authenticated = TRUE
    /\ "role" \in DOMAIN cc[sid] /\ cc[sid].role = "admin"

EmitsNamed(l, ev) == {i \in DOMAIN l.emits : l.emits[i].ev = ev}

\* C1: a gated handler (every admin:* and services:* handler) called by a
\* connection that has no entry, is not authenticated or is not an admin
\* emits exactly one 'error' ('Admin access required') addressed to the
\* caller alone, publishes nothing, and changes neither connected_clients
\* nor any room membership nor the timers.
C1_DeniedIsErrorOnly ==
    [][(last'.op \in GatedOps /\ ~SessionIsAdmin(connected_clients, last'.sid))
         => /\ Len(last'.emits) = 1
            /\ last'.emits[1].ev = "error"
            /\ last'.emits[1].body = "Admin access required"
            /\ last'.emits[1].room = last'.sid
            /\ last'.emits[1].to \subseteq {last'.sid}
            /\ last'.pubs = <<>>
            /\ UNCHANGED <<connected_clients, rooms, timers, subscribed>>]_vars

\* C1 witness: a connected but unauthenticated caller was refused while
\* another connection is an admin holding a subscription.
C1_Witness ==
    /\ last.op \in GatedOps
    /\ last.auth = FALSE
    /\ last.sid \in DOMAIN connected_clients
    /\ last.emits[1].to = {last.sid}
    /\ \E p \in subscribed : p[1] # last.sid

\* the events that answer one request of one connection
ReplyEvents ==
    {ResponseEv("admin:patients:create", "r1"), "admin:insurance:eligibility:response",
     "services:status:update"}
BusReplyOps == {"bus:patient_response", "bus:insurance_response", "health:response"}

\* C2: a per-request reply that arrives from the bus is delivered to at
\* most one connection, whatever the payload (clientId absent or stale).
C2_ReplyToAtMostOne ==
    last.op \in BusReplyOps =>
        \A i \in DOMAIN last.emits :
            last.emits[i].ev \in ReplyEvents => Cardinality(last.emits[i].to) <= 1

\* the connections that asked for a topic and are still connected
Subscribers(kind, tenant) ==
    {sid \in DOMAIN connected_clients : <<sid, <<kind, tenant>>>> \in subscribed}

\* C3: a room broadcast made by a bus callback reaches every connection
\* that subscribed to that room and is still connected, reaches no other
\* connection (never subscribed, subscribed to another tenant, gone), and
\* is made once.
C3_BroadcastReachesSubscribers ==
    /\ last.op = "bus:tenant_update" =>
         \A ev \in {"admin:tenants:created", "admin:tenants:update"} :
            /\ Cardinality(EmitsNamed(last, ev)) <= 1
            /\ \A i \in EmitsNamed(last, ev) :
                  last.emits[i].to = Subscribers("tenants", None)
    /\ last.op = "bus:patient_response" =>
         \A ev \in {"admin:patients:created", "admin:patients:list"} :
            /\ Cardinality(EmitsNamed(last, ev)) <= 1
            /\ \A i \in EmitsNamed(last, ev) :
                  last.emits[i].to = Subscribers("patients", last.arg.tenantId)

\* C3 witness: 'admin:tenants:created' reached exactly the 3 subscribed
\* connections out of 4 connected ones.
C3_Witness ==
    /\ last.op = "bus:tenant_update"
    /\ Cardinality(DOMAIN connected_clients) = 4
    /\ \E i \in EmitsNamed(last, "admin:tenants:created") :
          /\ Cardinality(last.emits[i].to) = 3
          /\ last.emits[i].to = Subscribers("tenants", None)

AllSids == {Sid(i) : i \in 1..MaxConn}
TenantRequestOps == {"admin:tenants:create", "admin:tenant:user:add",
                     "admin:tenant:claimmd:add"}
TenantSubscribeOps == {"admin:tenants:subscribe", "admin:tenant:subscribe"}

\* an authorized request of connection s has just been handled
Requested(s, op) == last.op = op /\ last.sid = s /\ last.auth

\* the response event of such a request is emitted to s
Answered(s, op) ==
    /\ last.op = op /\ last.sid = s
    /\ \E i \in DOMAIN last.emits :
          /\ last.emits[i].to = {s}
          /\ last.emits[i].ev \in
                IF op \in TenantRequestOps
                THEN {ResponseEv(op, r) : r \in RequestInputs}
                ELSE {"admin:tenants:list", "admin:tenant:data", "error"}

AllTimers == {<<s, ReqId(i)>> : s \in AllSids, i \in 1..MaxChecks}

\* Client events and bus messages are up to the outside world; the only
\* step the server schedules itself is a started threading.Timer, which
\* fires.
SpecAnswer == Spec /\ \A t \in AllTimers : WF_vars(Finalize(t))

\* C4: every authorized request is answered in the end: the three tenant
\* requests with '<action>:response:<requestId>', the two subscribe
\* requests with their list/data event or an 'error'.
C4_RequestAnswered ==
    \A s \in AllSids : \A op \in TenantRequestOps \cup TenantSubscribeOps :
        Requested(s, op) ~> Answered(s, op)

CreateOps == {"admin:patients:create", "admin:encounters:create",
              "admin:insurance:create", "admin:claims:create"}

\* C5: an authorized create request gets exactly one
\* '<action>:response:<requestId>', addressed to the requester alone.
C5_ExactlyOneResponse ==
    (last.auth /\ last.op \in CreateOps) =>
        LET resp == {i \in DOMAIN last.emits :
                        last.emits[i].ev \in {ResponseEv(last.op, r) : r \in RequestInputs}}
        IN /\ Cardinality(resp) = 1
           /\ \A i \in resp : last.emits[i].to = {last.sid}

ValidCredentials(arg) == arg.email = "admin@htpi.com" /\ arg.password = "changeme123"

\* C6: auth:login with the valid admin credentials on an open connection
\* answers exactly one success and leaves the connection authenticated,
\* with role 'admin', in rooms 'admin' and 'admin:<userId>', whether or not
\* the bus is connected.
C6_ValidLoginSucceeds ==
    (last.op = "auth:login" /\ ValidCredentials(last.arg)
        /\ last.sid \in DOMAIN connected_clients)
    => /\ Len(last.emits) = 1
       /\ last.emits[1].ev = "auth:login:response"
       /\ last.emits[1].body = "ok"
       /\ SessionIsAdmin(connected_clients, last.sid)
       /\ "user" \in DOMAIN connected_clients[last.sid]
       /\ <<last.sid, "admin">> \in rooms
       /\ <<last.sid, "admin:admin-001">> \in rooms

\* C7: a login that answers success false leaves connected_clients and
\* every room membership as they were.
C7_FailedLoginChangesNothing ==
    [][(last'.op = "auth:login" /\ last'.emits[1].body # "ok")
         => UNCHANGED <<connected_clients, rooms, subscribed, timers>>]_vars

\* C7 witness: a login failed on a connection that was already an admin.
C7_Witness ==
    /\ last.op = "auth:login"
    /\ last.emits[1].body = "Invalid credentials"
    /\ SessionIsAdmin(connected_clients, last.sid)
    /\ <<last.sid, "admin">> \in rooms

\* C8: when the timer of a stored aggregation fires and the requesting
\* connection is still connected, finalize_health_status turns 'checking'
\* into 'down' and nothing else, emits one final 'services:status:update'
\* to that connection alone, and removes the entry.
C8_FinalizeEmitsAndRemoves ==
    [][\A t \in timers :
        (/\ last'.op = "finalize" /\ timers' = timers \ {t}
         /\ t[2] \in DOMAIN HealthChecks(connected_clients, t[1]))
        => /\ t[2] \notin DOMAIN HealthChecks(connected_clients', t[1])
           /\ Len(last'.emits) = 1
           /\ last'.emits[1].ev = "services:status:update"
           /\ last'.emits[1].to = {t[1]}
           /\ last'.emits[1].body.requestId = t[2]
           /\ \A k \in DOMAIN last'.emits[1].body.status :
                 last'.emits[1].body.status[k] =
                    LET old == HealthChecks(connected_clients, t[1])[t[2]].status[k]
                    IN IF old = "checking" THEN "down" ELSE old]_vars

\* a started threading.Timer fires
SpecHealthTimers == SpecHealth /\ \A t \in AllTimers : WF_vars(Finalize(t))

\* C9: every stored aggregation entry is removed in the end.
C9_EntryRemoved ==
    \A t \in AllTimers :
        (t[2] \in DOMAIN HealthChecks(connected_clients, t[1]))
           ~> (t[2] \notin DOMAIN HealthChecks(connected_clients, t[1]))

\* a reply that names no pending slot: unknown or finalized request,
\* client not connected, or service not in the aggregation
Stray(arg) ==
    LET checks == HealthChecks(connected_clients, PGet(arg.clientId)) IN
    \/ arg.requestId \notin DOMAIN checks
    \/ arg.serviceId \notin DOMAIN checks[arg.requestId].status

\* C10: a health reply that names no pending slot changes nothing in
\* connected_clients and emits nothing.
C10_StrayReplyIsNoOp ==
    [][(last'.op = "health:response" /\ Stray(last'.arg))
         => /\ connected_clients' = connected_clients
            /\ last'.emits = <<>>]_vars

\* C10 witness: a reply arrived for a request of a connected client after
\* its aggregation had been finalized.
C10_Witness ==
    /\ last.op = "health:response"
    /\ last.emits = <<>>
    /\ last.arg.clientId \in DOMAIN connected_clients
    /\ last.arg.requestId \in IssuedRequests
    /\ "health_checks" \in DOMAIN connected_clients[last.arg.clientId]
    /\ last.arg.requestId \notin DOMAIN connected_clients[last.arg.clientId].health_checks
    /\ last.arg.serviceId \in Range(services_to_check)
\* C11: of two health replies delivered one after the other for the same
\* requestId and serviceId, only the first takes effect: the second changes
\* nothing in connected_clients and emits nothing.
C11_SecondReplyIgnored ==
    [][(/\ last.op = "health:response" /\ last.emits # <<>>
        /\ last'.op = "health:response" /\ last'.arg = last.arg)
         => /\ connected_clients' = connected_clients
            /\ last'.emits = <<>>]_vars

\* several health checks pending at a time
PairChecks == MaxChecks + 1
NextChecks ==
    \/ NatsDrop \/ NatsReconnect
    \/ handle_connect(MaxConn) \/ handle_disconnect \/ handle_login(MaxConn)
    \/ handle_service_status_check(MaxConn, PairChecks)
    \/ finalize_health_status
SpecChecks == Init /\ [][NextChecks]_vars

\* Process start (app.py:1679-1690) before init_nats has run
InitStart ==
    /\ STANDALONE_MODE \in BOOLEAN
    /\ nc = "None"
    /\ connected_clients = EmptyDict
    /\ rooms = {}
    /\ timers = {}
    /\ nextSid = 0
    /\ nextReq = 0
    /\ subscribed = {}
    /\ last = [op |-> "start", sid |-> None, arg |-> None, auth |-> FALSE, emits |-> <<>>, pubs |-> <<>>]
    /\ subscriptions = [phase |-> IF STANDALONE_MODE THEN "done" ELSE "start", subs |-> <<>>]
    /\ nats_service = NewService
    /\ handlers = {}
    /\ session = EmptyDict
    /\ db = LocalUsers

\* init_nats call by call, then the messages of the bus
NextStart ==
    \/ init_nats_connect \/ init_nats_subscribe
    \/ NatsDrop \/ NatsReconnect
    \/ bus_message
SpecStart == InitStart /\ [][NextStart]_vars

\* ------------------------------------------- handlers racing a disconnect
\* Handlers run in threads (async_mode='threading').  A handler that passed
\* its gate while the connection was open and reaches its first write to
\* connected_clients[client_id] after handle_disconnect removed the entry:
\* the subscript raises KeyError, the except branch answers.

\* WriteAfterDisconnect with a write that creates the missing entry
WriteRecreatesEntry(op, sid, ev, error) ==
    /\ sid \notin DOMAIN connected_clients
    /\ connected_clients' = Put(connected_clients, sid, EmptyDict)
    /\ Step(op, sid, None, TRUE, <<Emit(rooms, ev, "ok", sid)>>, <<>>)
    /\ UNCHANGED <<db, session, handlers, nats_service, subscriptions, STANDALONE_MODE, nc, rooms, timers, nextSid,
                   nextReq, subscribed>>

WriteAfterDisconnect(op, sid, ev, error) ==
    /\ sid \notin DOMAIN connected_clients
    /\ Step(op, sid, None, TRUE, <<Emit(rooms, ev, error, sid)>>, <<>>)
    /\ UNCHANGED <<db, session, handlers, nats_service, subscriptions, STANDALONE_MODE, nc, connected_clients, rooms,
                   timers, nextSid, nextReq, subscribed>>

\* app.py:1274 and 1291
tenant_switch_after_disconnect ==
    \E sid \in Opened, requestId \in RequestInputs :
        WriteAfterDisconnect("admin:tenant:switch after disconnect", sid,
                             ResponseEv("admin:tenant:switch", requestId),
                             "Failed to switch tenant")

\* app.py:1391
status_check_after_disconnect ==
    \E sid \in Opened :
        WriteAfterDisconnect("services:status:check after disconnect", sid,
                             "services:status:response", "KeyError")

\* connections, their handlers and the threads that outlive them
NextLifecycle ==
    \/ NatsDrop \/ NatsReconnect
    \/ handle_connect(MaxConn) \/ handle_disconnect \/ handle_login(MaxAdmins)
    \/ handle_tenant_switch(MaxHeld) \/ tenant_switch_after_disconnect
    \/ handle_service_status_check(MaxHeld, MaxChecks) \/ status_check_after_disconnect
    \/ handle_health_response
    \/ FinalizeMark \/ FinalizeEmit \/ FinalizeDel
SpecLifecycle == Init /\ [][NextLifecycle]_vars

\* the health check with the Timer thread interleaved statement by statement
NextRace ==
    \/ NatsDrop \/ NatsReconnect
    \/ handle_connect(MaxConn) \/ handle_disconnect \/ handle_login(MaxAdmins)
    \/ handle_service_status_check(MaxHeld, MaxChecks)
    \/ handle_health_response
    \/ FinalizeMark \/ FinalizeEmit \/ FinalizeDel
SpecRace == Init /\ [][NextRace]_vars

\* C12: each slot of a request is resolved by the reply or by the timeout,
\* never both: after the final aggregated 'services:status:update' of a
\* requestId was emitted, no reply emits a per-service update for that
\* requestId and no reply changes what the final status reported.
C12_NoReplyAfterFinal ==
    [][\A t \in timers :
         (/\ TimerAt(t, "del")
          /\ last'.op = "health:response"
          /\ last'.arg.requestId = t[2])
         => /\ last'.emits = <<>>
            /\ connected_clients' = connected_clients]_vars

\* the shared NATSService instance and its callers
NextService ==
    \/ connect \/ disconnect
    \/ LinkDrop \/ LinkRetry \/ LinkRestore \/ LinkClose
    \/ request \/ publish
SpecService == Init /\ [][NextService]_vars

ServiceCalls == {"NATSService.request", "NATSService.publish"}

\* C13: request threads that call the shared NATSService at the same time
\* do not disturb each other: no call fails, by raising or by a failure
\* result, because another call is in flight on the event loop, and a
\* request that returns a reply returns the reply to its own request.
C13_ConcurrentCallsIndependent ==
    last.op \in ServiceCalls =>
        /\ last.arg.result # "This event loop is already running"
        /\ last.arg.result \in {Reply(t) : t \in Threads} => last.arg.result = Reply(last.arg.thread)

\* a call of request or publish starts in this step
CallStarts == nats_service'.calls = nats_service.calls + 1

\* C14: while the bus is disconnected a call of NATSService.request or
\* NATSService.publish raises 'Not connected to NATS' and hands nothing to
\* the bus client, neither sent nor queued.
C14_DisconnectedCallRaises ==
    [][(CallStarts /\ nats_service.link # "connected")
         => /\ last'.arg.raised
            /\ last'.arg.result = "Not connected to NATS"
            /\ nats_service'.sent = nats_service.sent
            /\ nats_service'.queued = nats_service.queued]_vars

\* a request of thread th that went out on the bus returns in this step
Returns(th) ==
    /\ nats_service.call[th] = "request" /\ th \in nats_service.sent
    /\ nats_service'.call[th] = "idle"

\* C15: a request made on a connected service that gets no reply within
\* the timeout returns the failure 'Request timeout' and does not raise,
\* and so does a request that fails in any other way; afterwards the
\* service is as connected as before, the loop is free for the next
\* request and nothing of the request is pending.
C15_TimeoutIsStructuredFailure ==
    [][\A th \in Threads :
         Returns(th)
         => /\ last'.op = "NATSService.request"
            /\ last'.arg.thread = th
            /\ ~last'.arg.raised
            /\ last'.arg.result \in {Reply(th), "Request timeout"} \cup RequestErrors
            /\ nats_service'._connected = nats_service._connected
            /\ nats_service'.link = nats_service.link
            /\ nats_service'.running = 0
            /\ th \notin nats_service'.sent /\ th \notin nats_service'.queued]_vars

\* C15 witness: a request timed out on a service that is still connected
\* with the loop free, and an earlier call had been made as well.
C15_Witness ==
    /\ last.op = "NATSService.request"
    /\ last.arg.result = "Request timeout" /\ ~last.arg.raised
    /\ is_connected(nats_service) /\ nats_service.link = "connected"
    /\ nats_service.running = 0
    /\ nats_service.sent = {} /\ nats_service.queued = {}
    /\ nats_service.calls = 2

FinalizeOps == {"finalize:mark", "finalize:emit", "finalize:del"}

\* C16: whatever the Timer thread finds (connection gone, entry gone, emit
\* failing), a step of finalize_health_status emits to no connection but
\* the requesting one, changes no other connection's entry and no room,
\* creates and removes no connection entry, and the thread ends: when the
\* requesting connection is gone it changes nothing and reaches nobody.
C16_FinalizeContained ==
    [][last'.op \in FinalizeOps
         => /\ \A i \in DOMAIN last'.emits : last'.emits[i].to \subseteq {last'.sid}
            /\ rooms' = rooms
            /\ DOMAIN connected_clients' = DOMAIN connected_clients
            /\ \A s \in DOMAIN connected_clients \ {last'.sid} :
                  connected_clients'[s] = connected_clients[s]
            /\ last'.sid \notin DOMAIN connected_clients
                 => /\ connected_clients' = connected_clients
                    /\ \A i \in DOMAIN last'.emits : last'.emits[i].to = {}
            /\ Cardinality(timers') <= Cardinality(timers)
            /\ last'.op = "finalize:del" => \A t \in timers' : t[1] # last'.sid \/ t[2] # last'.arg]_vars

\* C16 witness: the Timer thread made its final emit after the requesting
\* connection had disconnected, while another connection was open.
C16_Witness ==
    /\ last.op = "finalize:emit"
    /\ last.sid \notin DOMAIN connected_clients
    /\ Len(last.emits) = 1 /\ last.emits[1].to = {}
    /\ connected_clients # EmptyDict

BusOps == {"bus:tenant_update", "bus:patient_response", "bus:insurance_response",
           "bus:claims_response", "health:response"}

\* C17: a bus message that makes its callback fail (json that does not
\* parse, a payload with a missing field) causes no event to be emitted to
\* any connection.
C17_FailedMessageEmitsNothing ==
    (last.op \in BusOps /\ last.arg.raised)
        => \A i \in DOMAIN last.emits : last.emits[i].to = {}

LateOps == {"admin:tenant:switch after disconnect", "services:status:check after disconnect"}

\* C18: the keys of connected_clients are exactly the open connections:
\* connect creates the entry with authenticated false, disconnect removes
\* it with its health_checks and its room memberships, and nothing that
\* runs after the disconnect (a handler past its gate, a login, the Timer
\* thread, a health reply) creates an entry for a closed connection.
C18_KeysAreOpenConnections ==
    /\ DOMAIN connected_clients = Participants(rooms)
    /\ \A s \in DOMAIN connected_clients : connected_clients[s].sid = s
    /\ last.op = "connect"
         => connected_clients[last.sid] = [sid |-> last.sid, authenticated |-> FALSE]
    /\ last.op = "disconnect"
         => /\ last.sid \notin DOMAIN connected_clients
            /\ HealthChecks(connected_clients, last.sid) = EmptyDict
            /\ \A p \in rooms : p[1] # last.sid

\* C18 witness: a handler past its gate wrote after its connection had
\* closed, while the Timer of that connection is still to run and another
\* connection is open.
C18_Witness ==
    /\ last.op \in LateOps
    /\ last.sid \notin DOMAIN connected_clients
    /\ \E t \in timers : t[1] = last.sid
    /\ connected_clients # EmptyDict

\* the requestIds pending for connection s
PendingIds(cc, s) == DOMAIN HealthChecks(cc, s)

\* C19: no two pending aggregations share a requestId, and a
\* services:status:check stored while others are pending adds a separate
\* entry with its own timer: no pending entry of any connection is
\* overwritten or removed by it and no timer is lost.
C19_ChecksAreSeparate ==
    /\ [](\A s1, s2 \in DOMAIN connected_clients :
            s1 # s2 => PendingIds(connected_clients, s1) \cap PendingIds(connected_clients, s2) = {})
    /\ [][(last'.op = "services:status:check" /\ last'.auth /\ last'.arg # None)
            => /\ last'.arg \notin UNION {PendingIds(connected_clients, s) :
                                            s \in DOMAIN connected_clients}
               /\ \A s \in DOMAIN connected_clients :
                     /\ PendingIds(connected_clients', s) =
                           PendingIds(connected_clients, s)
                              \cup (IF s = last'.sid THEN {last'.arg} ELSE {})
                     /\ \A r \in PendingIds(connected_clients, s) :
                           HealthChecks(connected_clients', s)[r] =
                              HealthChecks(connected_clients, s)[r]
               /\ timers' = timers \cup {<<last'.sid, last'.arg>>}
               /\ <<last'.sid, last'.arg>> \notin timers]_vars

\* C19 witness: one connection has two aggregations pending, each with its
\* timer.
C19_Witness ==
    \E s \in DOMAIN connected_clients :
        /\ Cardinality(PendingIds(connected_clients, s)) = 2
        /\ \A r \in PendingIds(connected_clients, s) : <<s, r>> \in timers
        /\ last.op = "services:status:check" /\ last.sid = s

\* C20: once init_nats has returned, a connected bus handle has every
\* pattern subscribed exactly once, so a message runs the callback of its
\* pattern exactly once; init_nats that failed part-way does not leave a
\* connected handle with only some of the subscriptions.
C20_AllSubscribedOrNotConnected ==
    /\ (subscriptions.phase = "done" /\ nc # "None")
          => \A i \in DOMAIN Patterns :
                Cardinality({k \in DOMAIN subscriptions.subs : subscriptions.subs[k] = i}) = 1
    /\ last.op = "bus:message"
          => Len(last.arg.ran) =
                IF \E i \in DOMAIN Patterns : Matches(Patterns[i], last.arg.subject)
                THEN 1 ELSE 0

\* ------------------------------------- handlers statement by statement
\* async_mode='threading' (app.py:38): every event runs its handler on a
\* thread of its own, so the statements of two handlers of one connection
\* interleave.  A record of handlers is one call in flight: pc is the
\* statement it is about to run, client what its local 'client' is bound to
\* ("unset", "none", "entry": the dict inside connected_clients, "dict": the
\* dict of an entry that was deleted since).
MaxInFlight == 1

InFlight(sid, op) == {h \in handlers : h.sid = sid /\ h.op = op}
NewHandler(sid, op, pc, client, arg) ==
    [sid |-> sid, op |-> op, pc |-> pc, n |-> 1, client |-> client,
     dict |-> EmptyDict, arg |-> arg]
\* the dict the local 'client' of h refers to
ClientOf(h) == IF h.client = "entry" THEN connected_clients[h.sid] ELSE h.dict

\* LoginWrites with the role stored right after the flag
LoginWritesRoleFirst == <<"authenticated", "role", "user", "token">>

\* the four stores of a successful login, in their order (app.py:349-352)
LoginWrites == <<"authenticated", "user", "token", "role">>

LoginValue(key, email) ==
    CASE key = "authenticated" -> TRUE
      [] key = "user" -> LoginUser(email)
      [] key = "token" -> "dev-token"
      [] key = "role" -> "admin"

\* app.py:310-346: the tests before the stores
login_begin ==
    \E sid \in Opened, arg \in Credentials :
        /\ Cardinality(InFlight(sid, "auth:login")) < MaxInFlight
        /\ IF NatsConnected
           THEN LoginFailed(sid, arg, "Authentication service not available")
           ELSE IF arg.email = "admin@htpi.com" /\ arg.password = "changeme123"
           THEN /\ handlers' =
                      handlers \cup {NewHandler(sid, "auth:login", "write", "unset", arg)}
                /\ Step("auth:login:begin", sid, arg, FALSE, <<>>, <<>>)
                /\ UNCHANGED <<db, session, nats_service, subscriptions, STANDALONE_MODE, nc,
                               connected_clients, rooms, timers, nextSid, nextReq, subscribed>>
           ELSE LoginFailed(sid, arg, "Invalid credentials")

\* one of connected_clients[client_id][key] = value (app.py:349-352); the
\* KeyError of a deleted entry ends the handler in its except branch
login_write ==
    \E h \in handlers :
        /\ h.op = "auth:login" /\ h.pc = "write"
        /\ IF h.sid \notin DOMAIN connected_clients
           THEN /\ handlers' = handlers \ {h}
                /\ Step("auth:login", h.sid, h.arg, FALSE,
                        <<Emit(rooms, "auth:login:response", "Authentication failed", h.sid)>>,
                        <<>>)
                /\ UNCHANGED connected_clients
           ELSE LET key == LoginWrites[h.n] IN
                /\ connected_clients' =
                      Put(connected_clients, h.sid,
                          Put(connected_clients[h.sid], key, LoginValue(key, h.arg.email)))
                /\ handlers' =
                      (handlers \ {h}) \cup
                      {[h EXCEPT !.n = @ + 1,
                                 !.pc = IF h.n = Len(LoginWrites) THEN "join" ELSE "write"]}
                /\ Step("auth:login:write", h.sid, key, FALSE, <<>>, <<>>)
        /\ UNCHANGED <<db, session, nats_service, subscriptions, STANDALONE_MODE, nc, rooms,
                       timers, nextSid, nextReq, subscribed>>

\* the two join_room calls and the answer (app.py:355-362); a connection
\* that has closed is in no room and is not put back into one
login_join ==
    \E h \in handlers :
        /\ h.op = "auth:login" /\ h.pc = "join"
        /\ rooms' =
              IF <<h.sid, h.sid>> \in rooms
              THEN JoinRoom(JoinRoom(rooms, h.sid, "admin"),
                            h.sid, "admin:" \o LoginUser(h.arg.email).id)
              ELSE rooms
        /\ handlers' = handlers \ {h}
        /\ Step("auth:login", h.sid, h.arg, FALSE,
                <<Emit(rooms', "auth:login:response", "ok", h.sid)>>, <<>>)
        /\ UNCHANGED <<db, session, nats_service, subscriptions, STANDALONE_MODE, nc,
                       connected_clients, timers, nextSid, nextReq, subscribed>>

\* client = connected_clients.get(client_id) (app.py:430-431)
create_tenant_begin ==
    \E sid \in Opened :
        /\ Cardinality(InFlight(sid, "admin:tenants:create")) < MaxInFlight
        /\ handlers' =
              handlers \cup
              {NewHandler(sid, "admin:tenants:create", "authenticated",
                          IF sid \in DOMAIN connected_clients THEN "entry" ELSE "none",
                          None)}
        /\ Step("admin:tenants:create:begin", sid, None, FALSE, <<>>, <<>>)
        /\ UNCHANGED <<db, session, nats_service, subscriptions, STANDALONE_MODE, nc,
                       connected_clients, rooms, timers, nextSid, nextReq, subscribed>>

\* not client or not client.get('authenticated') or client.get('role') !=
\* 'admin' (app.py:433-435): the flag is read, then the role
create_tenant_check ==
    \E h \in handlers :
        /\ h.op = "admin:tenants:create" /\ h.pc \in {"authenticated", "role"}
        /\ LET passes ==
                  /\ h.client # "none"
                  /\ IF h.pc = "authenticated"
                     THEN Get(ClientOf(h), "authenticated", FALSE) = TRUE
                     ELSE Get(ClientOf(h), "role", None) = "admin"
           IN IF passes
              THEN /\ handlers' =
                         (handlers \ {h}) \cup
                         {[h EXCEPT !.pc = IF h.pc = "authenticated" THEN "role" ELSE "use"]}
                   /\ Step("admin:tenants:create:check", h.sid, h.pc, FALSE, <<>>, <<>>)
              ELSE /\ handlers' = handlers \ {h}
                   /\ Step(h.op, h.sid, Raised(FALSE), FALSE,
                           <<Emit(rooms, "error", "Admin access required", h.sid)>>, <<>>)
        /\ UNCHANGED <<db, session, nats_service, subscriptions, STANDALONE_MODE, nc,
                       connected_clients, rooms, timers, nextSid, nextReq, subscribed>>

\* client['user']['id'] and client['user']['name'] (app.py:439-443), then
\* the stub answer; a KeyError ends in the except branch (466-471)
create_tenant_use ==
    \E h \in handlers, requestId \in RequestInputs :
        /\ h.op = "admin:tenants:create" /\ h.pc = "use"
        /\ LET raised == "user" \notin DOMAIN ClientOf(h) IN
           Step(h.op, h.sid, Raised(raised), TRUE,
                IF raised
                THEN <<Emit(rooms, ResponseEv(h.op, requestId),
                            "Failed to create tenant", h.sid)>>
                ELSE IF NatsConnected
                THEN <<Emit(rooms, ResponseEv(h.op, requestId),
                            "NATS not available in sync mode", h.sid)>>
                ELSE <<>>, <<>>)
        /\ handlers' = handlers \ {h}
        /\ UNCHANGED <<db, session, nats_service, subscriptions, STANDALONE_MODE, nc,
                       connected_clients, rooms, timers, nextSid, nextReq, subscribed>>

\* a login and a gated handler of the same connection on their threads
NextLogin ==
    \/ NatsDrop \/ NatsReconnect
    \/ handle_connect(MaxConn) \/ handle_disconnect
    \/ login_begin \/ login_write \/ login_join
    \/ create_tenant_begin \/ create_tenant_check \/ create_tenant_use
SpecLogin == Init /\ [][NextLogin]_vars

\* ------------------------------------------------------------ HTTP routes
\* app.py:119-287.  session is Flask's session of the browser that sends
\* the request.  A step records the response in last.arg.
ProtectedPages ==
    {"/dashboard", "/tenants", "/tenants/<tenant_id>", "/users", "/services",
     "/patients", "/patients/<patient_id>", "/insurance", "/claims", "/encounters",
     "/tenants/switch"}

Http(op, data, response) ==
    Step(op, None, [data |-> data, response |-> response], FALSE, <<>>, <<>>)

\* 'user' in session and session['user'].get('role') == 'admin'
SessionAdmin(ss) == "user" \in DOMAIN ss /\ Get(ss["user"], "role", None) = "admin"

\* login_required with its first test the wrong way round
login_requiredInverted(ss, view) ==
    IF "user" \in DOMAIN ss THEN "redirect:login?next"
    ELSE "render:" \o view

\* the decorator (app.py:119-128): what a decorated view answers
login_required(ss, view) ==
    IF "user" \notin DOMAIN ss THEN "redirect:login?next"
    ELSE IF Get(Get(ss, "user", EmptyDict), "role", None) # "admin" THEN "redirect:login"
    ELSE "render:" \o view

\* every view behind @login_required (app.py:148-255)
protected_view ==
    \E view \in ProtectedPages :
        /\ Http("GET " \o view, None, login_required(session, view))
        /\ UNCHANGED <<db, session, handlers, nats_service, subscriptions, STANDALONE_MODE, nc,
                       connected_clients, rooms, timers, nextSid, nextReq, subscribed>>

\* app.py:131-135
index ==
    /\ Http("GET /", None,
            IF SessionAdmin(session) THEN "redirect:dashboard" ELSE "redirect:login")
    /\ UNCHANGED <<db, session, handlers, nats_service, subscriptions, STANDALONE_MODE, nc,
                   connected_clients, rooms, timers, nextSid, nextReq, subscribed>>

\* app.py:137-141
login ==
    /\ Http("GET /login", None,
            IF SessionAdmin(session) THEN "redirect:dashboard" ELSE "render:/login")
    /\ UNCHANGED <<db, session, handlers, nats_service, subscriptions, STANDALONE_MODE, nc,
                   connected_clients, rooms, timers, nextSid, nextReq, subscribed>>

\* logout that also signs the user's socket connections off
logoutSignsOff ==
    /\ session' = EmptyDict
    /\ connected_clients' =
          [s \in DOMAIN connected_clients |->
              Put(connected_clients[s], "authenticated", FALSE)]
    /\ Http("GET /logout", None, "redirect:login")
    /\ UNCHANGED <<db, handlers, nats_service, subscriptions, STANDALONE_MODE, nc,
                   rooms, timers, nextSid, nextReq, subscribed>>

\* app.py:143-146
logout ==
    /\ session' = EmptyDict
    /\ Http("GET /logout", None, "redirect:login")
    /\ UNCHANGED <<db, handlers, nats_service, subscriptions, STANDALONE_MODE, nc,
                   connected_clients, rooms, timers, nextSid, nextReq, subscribed>>

\* app.py:258-268
health_check ==
    /\ Http("GET /health", None,
            [status |-> "healthy", nats_connected |-> NatsConnected,
             standalone_mode |-> STANDALONE_MODE])
    /\ UNCHANGED <<db, session, handlers, nats_service, subscriptions, STANDALONE_MODE, nc,
                   connected_clients, rooms, timers, nextSid, nextReq, subscribed>>

\* the 'user' of the body of a POST /auth/session: an admin, a user of
\* another role, no 'user' key, or "user": null
PlainUser == [id |-> "user-002", email |-> "user@htpi.com", name |-> "User", role |-> "user"]
PostedUsers == {"admin", "plain", "missing", "null"}
\* data.get('user', {}) where it is a dict
PostedUser(kind) ==
    CASE kind = "admin" -> LoginUser("admin@htpi.com")
      [] kind = "plain" -> PlainUser
      [] OTHER -> EmptyDict

\* app.py:271-286.  json: whether the request has a JSON body; without one
\* data.get raises (data is None) or get_json itself does, and with
\* "user": null the .get('role') raises once 'authenticated' was truthy:
\* both end in the except branch, which answers 500 and leaves the session.
set_session ==
    \E json \in BOOLEAN, authenticated \in BOOLEAN, user \in PostedUsers :
        LET data == [json |-> json, authenticated |-> authenticated, user |-> user] IN
        /\ IF ~json \/ (authenticated /\ user = "null")
           THEN /\ session' = session
                /\ Http("POST /auth/session", data, 500)
           ELSE IF authenticated /\ Get(PostedUser(user), "role", None) = "admin"
           THEN /\ session' = Put(Put(session, "user", PostedUser(user)), "token", "dev-token")
                /\ Http("POST /auth/session", data, 200)
           ELSE /\ session' = EmptyDict
                /\ Http("POST /auth/session", data, 401)
        /\ UNCHANGED <<db, handlers, nats_service, subscriptions, STANDALONE_MODE, nc,
                       connected_clients, rooms, timers, nextSid, nextReq, subscribed>>

\* the pages of the browser next to its socket connections
NextWeb ==
    \/ NatsDrop \/ NatsReconnect
    \/ handle_connect(MaxConn) \/ handle_disconnect \/ handle_login(MaxAdmins)
    \/ handle_tenant_switch(MaxHeld)
    \/ index \/ login \/ logout \/ protected_view \/ health_check \/ set_session
SpecWeb == Init /\ [][NextWeb]_vars

\* ---------------------------------------------- controllers/auth.py
\* The login and logout views of the auth blueprint.  They call the shared
\* NATSService (current_app.nats) and wait for the call on the thread of
\* the web request; flask_login keeps the signed-in user's id in the
\* session under '_user_id'.
\* what the login form is filled with
FormEmails == {"local@htpi.com", "bus@htpi.com"}
FormPasswords == {"secret", "wrong"}

\* what the responder of admin.auth.login answers: success with the user's
\* data, success without it, or a refusal
LoginReplies == {"granted", "granted-bare", "denied"}

\* NATSService.request (nats_service.py:73-90) as its caller sees it, the
\* whole call: it raises when the service is not connected (75-76) and
\* otherwise returns, either the reply or, for NATSTimeoutError (85-87) and
\* for every other exception (88-90), a dict with success False.
RequestOutcomes(svc) ==
    IF ~is_connected(svc) THEN {Outcome(0, TRUE, "Not connected to NATS")}
    ELSE IF svc.running # 0
    THEN {Outcome(0, FALSE, "This event loop is already running")}
    ELSE {Outcome(0, FALSE, r) :
             r \in (IF svc.link = "connected" THEN LoginReplies ELSE {})
                      \cup {"Request timeout"} \cup RequestErrors}

\* response.get('success') of what request returned
ReplySuccess(o) == ~o.raised /\ o.result \in {"granted", "granted-bare"}

\* current_user.is_authenticated
is_authenticated == "_user_id" \in DOMAIN session /\ session["_user_id"] \in DOMAIN db

\* what a step of the blueprint records: the form, the response, what the
\* bus call did and the user handed to login_user (None: nobody)
AuthStep(op, data, response, bus, user) ==
    Step(op, None, [data |-> data, response |-> response, bus |-> bus, login_user |-> user],
         FALSE, <<>>, <<>>)

NotCalled == Outcome(0, FALSE, "not called")
Flashed == "render:auth/login.html flash:Invalid email or password"

\* login (controllers/auth.py:17-76).  A signed-in browser is redirected
\* (20-21); a GET or an invalid form renders the page (24, 76).  Otherwise
\* the bus is asked (27-31).  A reply with success: the user is looked up or
\* created from response['data']['user'] (35-42, KeyError when the reply has
\* no data) and signed in (47).  Any other returned dict, the timeout and
\* error results of request among them: flash, no local check (54-56).  An
\* exception (58): the local check (61-62), which raises for a user without
\* a password hash.  last_login is not modelled.
auth_login ==
    \E submitted \in BOOLEAN, email \in FormEmails, password \in FormPasswords :
        LET data == [submitted |-> submitted, email |-> email, password |-> password]
            signIn(o) ==
                /\ session' = Put(session, "_user_id", email)
                /\ AuthStep("auth.login", data, "redirect:dashboard.index", o, email)
            refuse(o, response) ==
                /\ session' = session /\ db' = db
                /\ AuthStep("auth.login", data, response, o, None)
            local(o) ==
                IF email \notin DOMAIN db THEN refuse(o, Flashed)
                ELSE LET checked == check_password(db[email], password) IN
                     IF checked = "raises" THEN refuse(o, "500")
                     ELSE IF checked = "True" THEN signIn(o) /\ db' = db
                     ELSE refuse(o, Flashed)
        IN  /\ IF is_authenticated THEN refuse(NotCalled, "redirect:dashboard.index")
               ELSE IF ~submitted THEN refuse(NotCalled, "render:auth/login.html")
               ELSE \E o \in RequestOutcomes(nats_service) :
                   IF o.raised THEN local(o)
                   ELSE IF ReplySuccess(o)
                   THEN IF email \in DOMAIN db THEN signIn(o) /\ db' = db
                        ELSE IF o.result = "granted"
                        THEN /\ db' = Put(db, email, User(email, "Bus Admin", "admin", None))
                             /\ signIn(o)
                        ELSE local(o)
                   ELSE refuse(o, Flashed)
            /\ UNCHANGED <<handlers, nats_service, subscriptions, STANDALONE_MODE, nc,
                           connected_clients, rooms, timers, nextSid, nextReq, subscribed>>

\* logout (controllers/auth.py:78-95): behind flask_login's login_required;
\* the publish is inside try/except, so whatever it does the user is signed
\* out (94)
auth_logout ==
    /\ IF is_authenticated
       THEN /\ session' = Del(session, "_user_id")
            /\ AuthStep("auth.logout", None, "redirect:auth.login", NotCalled, None)
       ELSE /\ session' = session
            /\ AuthStep("auth.logout", None, "401", NotCalled, None)
    /\ UNCHANGED <<db, handlers, nats_service, subscriptions, STANDALONE_MODE, nc,
                   connected_clients, rooms, timers, nextSid, nextReq, subscribed>>

\* the blueprint's views, the shared service and its link to the server
NextAuth ==
    \/ connect \/ disconnect
    \/ LinkDrop \/ LinkRetry \/ LinkRestore \/ LinkClose
    \/ request
    \/ auth_login \/ auth_logout
SpecAuth == Init /\ [][NextAuth]_vars

\* the waits of one reconnection episode double from one attempt to the
\* next until they reach the bound
Doubling(w, bound) ==
    \A i \in 1..(Len(w) - 1) :
        w[i + 1] = (IF 2 * w[i] < bound THEN 2 * w[i] ELSE bound)
WaitBounds == (reconnect_time_wait + 1)..(reconnect_time_wait * 2 ^ max_reconnect_attempts)

\* C21: after an unexpected loss of the bus connection the client retries
\* with waits that grow exponentially up to a bound, makes at most
\* max_reconnect_attempts (10) attempts, and retries no more once the cap is
\* reached.
C21_BackoffBounded ==
    /\ \E bound \in WaitBounds : Doubling(nats_service.waits, bound)
    /\ nats_service.reconnects <= max_reconnect_attempts
    /\ Len(nats_service.waits) <= max_reconnect_attempts
    /\ nats_service.link = "closed" => ~ENABLED LinkRetry

\* C22: when STANDALONE_MODE is on or the bus is not connected, an
\* authorized services:status:check answers 'services:status:response' with
\* success true, a requestId and a mock status for each of the 12 listed
\* services plus 'mongodb' (healthy for htpi-admin-portal,
\* htpi-gateway-service and htpi-auth-service, down for the rest); it does
\* not answer with success false.
C22_MockStatusAnswered ==
    (/\ last.op = "services:status:check" /\ last.auth
     /\ (STANDALONE_MODE \/ ~NatsConnected))
    => /\ Len(last.emits) = 1
       /\ last.emits[1].ev = "services:status:response"
       /\ last.emits[1].to = {last.sid}
       /\ last.emits[1].body.success
       /\ "requestId" \in DOMAIN last.emits[1].body
       /\ DOMAIN last.emits[1].body.status = Range(services_to_check) \cup {"mongodb"}
       /\ \A k \in DOMAIN last.emits[1].body.status :
             last.emits[1].body.status[k] =
                 (IF k \in {"htpi-admin-portal", "htpi-gateway-service", "htpi-auth-service"}
                  THEN "healthy" ELSE "down")

\* the services a health-check request is published for
CheckedServices == Range(services_to_check) \ {"htpi-nats"}
PubsTo(l, subject) == {j \in DOMAIN l.pubs : l.pubs[j].key = subject}

\* C23: in production mode with the bus connected, an authorized
\* services:status:check publishes one health-check request per service other
\* than htpi-nats to subject 'htpi.health.<service>' and records that
\* service as 'checking' in the aggregation; 'unknown' is recorded only when
\* the publish failed.
C23_ChecksPublished ==
    (/\ last.op = "services:status:check" /\ last.auth
     /\ ~STANDALONE_MODE /\ NatsConnected)
    => \A k \in CheckedServices :
          LET sent == PubsTo(last, "htpi.health." \o Dotted(k))
              recorded == last.emits[1].body.status[k] IN
          /\ Cardinality(sent) = 1
          /\ \A j \in sent :
                /\ last.pubs[j].outcome = "published"
                /\ recorded = "checking"
          /\ recorded = "unknown" => \E j \in sent : last.pubs[j].outcome # "published"

\* connections whose entry has authenticated false
Unauthenticated ==
    {s \in DOMAIN connected_clients :
        Get(connected_clients[s], "authenticated", FALSE) # TRUE}
UnauthenticatedEvents == {"connected", "error", "auth:login:response"}

\* C24: no event other than 'connected', 'error' and 'auth:login:response' is
\* ever delivered to a connection whose authenticated flag is false: no room
\* broadcast, no per-request reply from the bus and no health update reaches
\* it, for any sequence of socket events and bus messages.
C24_NothingReachesUnauthenticated ==
    \A i \in DOMAIN last.emits :
        (last.emits[i].to \cap Unauthenticated # {})
        => last.emits[i].ev \in UnauthenticatedEvents

\* memberships of the named rooms: every room but a connection's own
NamedMemberships(rr) == {p \in rr : p[2] # p[1]}

\* C25: in every reachable state every member of a named room ('admin',
\* 'admin:<userId>', 'admin:tenants', 'admin:tenant:<id>',
\* 'admin:patients:<id>', 'admin:encounters:<id>', 'admin:insurance:<id>',
\* 'admin:claims:<id>') is a live connection whose entry has authenticated
\* true and role 'admin'; a room is joined only after the auth check or
\* inside a successful login.
C25_RoomMembersAreAdmins ==
    [][/\ \A p \in NamedMemberships(rooms') : SessionIsAdmin(connected_clients', p[1])
       /\ NamedMemberships(rooms') \ NamedMemberships(rooms) # {}
          => \/ last'.auth
             \/ last'.op = "auth:login" /\ last'.emits[1].body = "ok"]_vars

\* an admin holds a subscription while another connection is not logged in
C25_Witness ==
    /\ \E p \in Subscriptions(rooms) : <<p[1], "admin">> \in rooms
    /\ Unauthenticated # {}

\* the calls of admin:tenants:create whose admin check has passed
PassedCheck == {h \in handlers : h.op = "admin:tenants:create" /\ h.pc = "use"}

\* C26: under every interleaving of handle_login's individual writes with
\* another handler of the same connection on another thread, whenever that
\* handler's admin check passes, the connection's entry already holds its
\* user record and token: the check never passes on a half-written login,
\* and client['user']['id'] is defined after a passed check.
C26_CheckSeesWholeLogin ==
    /\ \A h \in PassedCheck : {"user", "token"} \subseteq DOMAIN ClientOf(h)
    /\ (last.op = "admin:tenants:create" /\ last.auth) => ~last.arg.raised

\* the check has passed while the login of the same connection still runs
C26_Witness ==
    \E h \in PassedCheck : InFlight(h.sid, "auth:login") # {}

Flag(cc, sid) == Get(cc[sid], "authenticated", FALSE) = TRUE

\* C27: a connection's authenticated flag only ever changes from false to
\* true, by a successful auth:login; once true it stays true until the entry
\* is removed on disconnect.  No later event (a failed auth:login on the same
\* connection, HTTP /logout, a non-admin POST /auth/session) resets it.
C27_FlagOnlyRises ==
    [][/\ \A sid \in DOMAIN connected_clients' \ DOMAIN connected_clients :
             ~Flag(connected_clients', sid)
       /\ \A sid \in DOMAIN connected_clients \cap DOMAIN connected_clients' :
             /\ Flag(connected_clients, sid) => Flag(connected_clients', sid)
             /\ (~Flag(connected_clients, sid) /\ Flag(connected_clients', sid))
                => /\ last'.op = "auth:login" /\ last'.sid = sid
                   /\ last'.emits[1].body = "ok"
       /\ \A sid \in DOMAIN connected_clients \ DOMAIN connected_clients' :
             last'.op = "disconnect" /\ last'.sid = sid]_vars

\* a logged-in connection has seen the browser's session refused
C27_Witness ==
    /\ \E sid \in DOMAIN connected_clients : Flag(connected_clients, sid)
    /\ last.op = "POST /auth/session" /\ last.arg.response = 401

\* C28: whenever NATSService.connect() returns normally, is_connected() is
\* true; in particular, when the underlying connection has become closed
\* after an earlier successful connect, a new connect() call re-establishes
\* the connection.  When connect() fails it raises and leaves is_connected()
\* false.
C28_ConnectReturnsConnected ==
    last.op = "NATSService.connect"
    => (is_connected(nats_service) <=> ~last.arg.raised)

\* C29: after NATSService.disconnect() has returned, is_connected() is false
\* and request()/publish() raise without touching the bus until a later
\* connect() succeeds; disconnect() on a service that is not connected is a
\* no-op; connect() on a connected service is a no-op that opens no second
\* connection and does not replace the event loop.
C29_DisconnectAndConnectIdempotent ==
    [][/\ (last'.op = "NATSService.disconnect" /\ ~last'.arg.raised)
          => ~is_connected(nats_service')
       /\ (~nats_service._connected /\ CallStarts)
          => /\ last'.arg.raised
             /\ last'.arg.result = "Not connected to NATS"
             /\ nats_service'.sent = nats_service.sent
             /\ nats_service'.queued = nats_service.queued
       /\ (~nats_service._connected /\ nats_service'._connected)
          => (last'.op = "NATSService.connect" /\ ~last'.arg.raised)
       /\ (last'.op = "NATSService.disconnect" /\ ~is_connected(nats_service))
          => (nats_service' = nats_service /\ ~last'.arg.raised)
       /\ (last'.op = "NATSService.connect" /\ is_connected(nats_service))
          => (nats_service' = nats_service /\ ~last'.arg.raised)]_vars

LoginRedirects == {"redirect:login?next", "redirect:login"}

\* C30: a page protected by login_required (dashboard, tenants, users,
\* services, patients, insurance, claims, encounters, tenants/switch) is
\* rendered only when the web session holds a user whose role is 'admin';
\* otherwise the request is redirected to the login page.  After /logout
\* every protected page redirects to login until a new session is
\* established.
C30_PagesNeedAdminSession ==
    [][/\ \A view \in ProtectedPages :
             last'.op = "GET " \o view
             => IF "user" \in DOMAIN session /\ session["user"].role = "admin"
                THEN last'.arg.response = "render:" \o view
                ELSE last'.arg.response \in LoginRedirects
       /\ last'.op = "GET /logout"
          => (session' = EmptyDict /\ last'.arg.response = "redirect:login")
       /\ ("user" \notin DOMAIN session /\ "user" \in DOMAIN session')
          => (last'.op = "POST /auth/session" /\ last'.arg.response = 200)]_vars

\* the dashboard was rendered for the browser's session
C30_Witness ==
    /\ last.op = "GET /dashboard"
    /\ last.arg.response = "render:/dashboard"

\* C31: POST /auth/session stores a user in the web session only when the
\* body has authenticated truthy and user.role equal to 'admin' (answering
\* success true); for every other body, including a missing or null user or
\* a non-JSON body, the session holds no user afterwards and the answer is a
\* failure (401 or 500): a rejected request never leaves an earlier admin
\* session in place.
C31_RejectedBodyClearsSession ==
    [][last'.op = "POST /auth/session"
       => IF /\ last'.arg.data.json /\ last'.arg.data.authenticated
             /\ last'.arg.data.user = "admin"
          THEN /\ "user" \in DOMAIN session' /\ session'["user"].role = "admin"
               /\ last'.arg.response = 200
          ELSE /\ "user" \notin DOMAIN session'
               /\ last'.arg.response \in {401, 500}]_vars

KnownTenants == {"tenant-001", "tenant-002", "tenant-003"}

\* C32: for an authorized admin:tenant:switch a known tenantId sets the
\* connection's current_tenant to that tenant and answers success; an
\* unknown tenantId answers success false ('Tenant not found') and leaves
\* current_tenant unchanged; an empty tenantId sets current_tenant to None
\* and answers success.  In every reachable state current_tenant is unset,
\* None or one of the three known tenants, and a switch changes only the
\* caller's entry.
C32_SwitchSetsKnownTenant ==
    [][/\ (last'.op = "admin:tenant:switch" /\ last'.auth)
          => /\ Len(last'.emits) = 1
             /\ last'.emits[1].to = {last'.sid}
             /\ DOMAIN connected_clients' = DOMAIN connected_clients
             /\ \A s \in DOMAIN connected_clients \ {last'.sid} :
                   connected_clients'[s] = connected_clients[s]
             /\ IF last'.arg \in KnownTenants
                THEN /\ connected_clients'[last'.sid].current_tenant = last'.arg
                     /\ last'.emits[1].body = "ok"
                ELSE IF last'.arg \in {"", Missing}
                THEN /\ connected_clients'[last'.sid].current_tenant = None
                     /\ last'.emits[1].body = "ok"
                ELSE /\ connected_clients' = connected_clients
                     /\ last'.emits[1].body = "Tenant not found"
       /\ \A s \in DOMAIN connected_clients' :
             "current_tenant" \in DOMAIN connected_clients'[s]
             => connected_clients'[s].current_tenant \in KnownTenants \cup {None}]_vars

\* an unknown tenant was refused while the caller has a tenant selected
C32_Witness ==
    /\ last.op = "admin:tenant:switch" /\ last.auth /\ last.arg = "tenant-999"
    /\ HasKey(last.sid, "current_tenant")
    /\ connected_clients[last.sid].current_tenant = "tenant-001"
    /\ Cardinality(DOMAIN connected_clients) > 1

\* the bus was unavailable for the login: request raised because the
\* service is not connected, or no reply came before the timeout
BusUnavailable(o) == o.result \in {"Not connected to NATS", "Request timeout"}

\* the local password check of the submitted form passes
LocalCheckPasses(data) ==
    /\ data.email \in DOMAIN db
    /\ check_password(db[data.email], data.password) = "True"

\* C33: when the bus is unavailable for a web login (the service is not
\* connected, or no reply before the timeout) the login controller falls
\* back to the local user store: a user with valid local credentials is
\* logged in; and a user is never logged in unless the bus replied success
\* or the local password check passed.
C33_LoginFallsBackToLocalStore ==
    (last.op = "auth.login" /\ last.arg.data.submitted) =>
        /\ (BusUnavailable(last.arg.bus) /\ LocalCheckPasses(last.arg.data))
              => /\ last.arg.login_user = last.arg.data.email
                 /\ Get(session, "_user_id", None) = last.arg.data.email
        /\ last.arg.login_user # None
              => ReplySuccess(last.arg.bus) \/ LocalCheckPasses(last.arg.data)

\* the half of C33 about the service that is not connected
C33_NotConnectedFallsBack ==
    (/\ last.op = "auth.login" /\ last.arg.data.submitted
     /\ last.arg.bus.result = "Not connected to NATS"
     /\ LocalCheckPasses(last.arg.data))
        => Get(session, "_user_id", None) = last.arg.data.email

\* nobody is signed in without a bus success or a passed local check
C33_NoLoginWithoutProof ==
    (last.op = "auth.login" /\ last.arg.login_user # None)
        => ReplySuccess(last.arg.bus) \/ LocalCheckPasses(last.arg.data)

\* C34: for every pending health-check aggregation, in every reachable
\* state, its 'pending' field equals the number of services in its status
\* map whose status is 'checking'.
C34_PendingCountsChecking ==
    \A sid \in DOMAIN connected_clients :
        \A rid \in DOMAIN HealthChecks(connected_clients, sid) :
            LET entry == HealthChecks(connected_clients, sid)[rid]
            IN entry.pending = Pending(entry.status)

\* the count is right when the aggregation is stored
C34_PendingRightWhenStored ==
    (last.op = "services:status:check" /\ last.auth /\ last.arg # None) =>
        LET entry == HealthChecks(connected_clients, last.sid)[last.arg]
        IN entry.pending = Pending(entry.status)

\* no step changes the 'pending' field of a stored aggregation
C34_PendingNeverWritten ==
    [][\A sid \in DOMAIN connected_clients :
          \A rid \in DOMAIN HealthChecks(connected_clients, sid) :
              (sid \in DOMAIN connected_clients'
               /\ rid \in DOMAIN HealthChecks(connected_clients', sid))
                 => HealthChecks(connected_clients', sid)[rid].pending
                      = HealthChecks(connected_clients, sid)[rid].pending]_vars

====
